---- MODULE Spec2Model ----
\* The synchronization engine of a1s (internal/model.TableData): a pluggable
\* fetch function and renderer, a cancellable periodic refresh loop, the current
\* snapshot and the listener fan-out.  The methods whose whole body runs under
\* the engine lock (SetAccessor, SetRenderer, AddListener, RemoveListener, Stop)
\* are single steps that any thread may take at any time; Watch and Refresh take
\* several steps and are called by the threads of Callers: by one of them, one
\* call after the other, under Spec, and by all of them at once under SpecWatch.
\* Every Watch creates
\* a context and, when its initial refresh succeeds, a watchLoop goroutine named
\* by that context.
EXTENDS Integers, Sequences, FiniteSets, TLC

\* ---------------------------------------------------------------- bounds
MaxWatch == 2
\* The Refresh calls made directly and by ticks; each Watch makes one more.
MaxRefresh == 2
MaxListeners == 2
NumListeners == 1
NumCallers == 2
\* The cache: the capacity its configuration asks for, and how far its clock runs.
MaxEntriesCfg == 2
MaxTime == 2
\* The longest row event collection.
MaxRows == 3
\* The most columns of a row given to the row model functions.
MaxCols == 2
\* The longest column value given to Less, but for a few longer durations.
MaxValueLen == 2
\* The threads that call the resource table at once.
NumTableThreads == 2
\* The refresh goroutines started by sortHandler that may be waiting to run.
MaxPending == 1

\* A watchLoop goroutine is named by the context its Watch created (1, 2, ...);
\* the threads that call Watch and Refresh are named 101, 102, ...
Callers == 101..(100 + NumCallers)
\* The thread that makes the public calls when they are made one after the other.
FirstCaller == 101
Loops == 1..MaxWatch
Threads == Callers \cup Loops
ListenerIds == 1..NumListeners
Nil == 0

\* What accessor.List can return: the objects of the listing, in order.
FetchResults == {<<>>, <<"a", "b", "c">>, <<"a", "c">>}
\* The objects on which renderer.Render may fail in one Refresh.
RenderFailures == {{}, {"b"}, {"a", "b", "c"}}

\* accessor, renderer  whether t.accessor / t.renderer is set (non-nil)
\* data                t.data, the current snapshot; data.ver counts the writes
\* listeners           t.listeners
\* cancelFn            t.cancelFn: Nil or the context it cancels
\* cancelled           the contexts whose cancel function has been called
\* nctx                the number of contexts created by Watch
\* ticker              per loop, whether its ticker channel holds a tick
\* th                  per thread, its position and its local variables
\* nrefresh            the number of Refresh calls made so far (direct, by Watch,
\*                     by a tick)
\* lastBuilt           history: how many rows the Refresh that wrote data rendered
\* stopNoop            history: the latest Stop found no watch to cancel and no
\*                     Watch was called since
\* mx                  t.mx: the writer and the readers holding it across steps
VARIABLES accessor, renderer, data, listeners, cancelFn, cancelled, nctx,
          ticker, th, nrefresh, lastBuilt, stopNoop, mx

\* The resource cache (aws.ResourceCache) is a separate component with its own
\* lock; it is checked under its own specification, SpecCache.
\* entries             c.entries: key -> [Value, Timestamp, TTL, RefreshAt]
\* defaultTTL          c.defaultTTL
\* maxEntries          c.maxEntries
\* now                 the clock time.Now() reads
\* cres                the latest cache call and what it returned
VARIABLES entries, defaultTTL, maxEntries, now, cres

cacheVars == <<entries, defaultTTL, maxEntries, now, cres>>

\* A row event collection (model1.RowEvents) used on its own, under SpecRows.
\* rows                the collection: its events and its index
\* rres                what the latest call on it returned: "ok", "notfound"
\*                     (the error of Delete) or "panic" (the call panicked)
VARIABLES rows, rres

rowsVars == <<rows, rres>>

\* The functions of the row model, applied to given arguments (SpecDelta,
\* SpecLess).
\* args                the arguments
\* result              the function applied and its result
VARIABLES args, result

pureVars == <<args, result>>

\* A resource table of the presentation layer (ui.ResourceTable; ui.Table is
\* the same code but for the error snapshot), under SpecTable and SpecTableSeq.
\* model               r.model: Nil or 1 (the engine, whose list is listeners)
\* header              r.header: the header of the latest render
\* sortColName         r.sortColName
\* filterText          r.filterText
\* fullData            r.fullData: <<>> is nil, <<d>> points to snapshot d
\* isUpdating          r.isUpdating, the in-progress-update guard
\* cells               the cells of the embedded tview.Table, row by row
\* title               the border title: whether it is the error title, and the
\*                     row count it shows
\* pending             the refresh goroutines sortHandler started that have not
\*                     run yet
\* tth                 per thread calling the table, its position and locals
VARIABLES model, header, sortColName, filterText, fullData,
          isUpdating, cells, title, pending, tth

tableVars == <<model, header, sortColName, filterText, fullData,
               isUpdating, cells, title, pending, tth>>

\* The variables of the components other than the engine.
otherVars == <<cacheVars, rowsVars, pureVars, tableVars>>

engineVars == <<accessor, renderer, data, listeners, cancelFn, cancelled, nctx,
                ticker, th, nrefresh, lastBuilt, stopNoop, mx>>

\* What the calls on the cache leave alone.
notCacheVars == <<engineVars, rowsVars, pureVars, tableVars>>
notRowsVars == <<engineVars, cacheVars, pureVars, tableVars>>
notPureVars == <<engineVars, cacheVars, rowsVars, tableVars>>
notTableVars == <<engineVars, cacheVars, rowsVars, pureVars>>

vars == <<engineVars, otherVars>>

\* ---------------------------------------------------------------- model1
\* model1.NewRowEvents: no events, empty index.
NewRowEvents == [events |-> <<>>, index |-> <<>>]

\* model1.NewRowEvent(EventAdd, row)
NewRowEvent(kind, row) == [Kind |-> kind, Row |-> row]

\* RowEvents.Add: append and index the identifier at the last position.
RowEventsAdd(r, re) ==
    LET n == Len(r.events) + 1
        id == re.Row.ID
    IN [events |-> Append(r.events, re),
        index |-> [x \in (DOMAIN r.index) \cup {id} |->
                      IF x = id THEN n - 1 ELSE r.index[x]]]

\* RowEvents.Empty
RowEventsEmpty(r) == Len(r.events) = 0

\* RowEvents.FindIndex: <<position, found>>
FindIndex(r, id) ==
    IF id \in DOMAIN r.index THEN <<r.index[id], TRUE>> ELSE <<0, FALSE>>

\* RowEvents.reindex: every event's identifier is mapped to its position (a
\* later event overwrites an earlier one with the same identifier); no key is
\* removed.
Reindex(r) ==
    LET ids == {r.events[i].Row.ID : i \in 1..Len(r.events)}
        last(id) == CHOOSE i \in 1..Len(r.events) :
                       /\ r.events[i].Row.ID = id
                       /\ \A j \in (i + 1)..Len(r.events) : r.events[j].Row.ID # id
    IN [r EXCEPT !.index = [id \in (DOMAIN r.index) \cup ids |->
                               IF id \in ids THEN last(id) - 1 ELSE r.index[id]]]

\* RowEvents.Set: r.events[i] = re; r.index[re.Row.ID] = i   (0 <= i < Len)
RowEventsSet(r, i, re) ==
    [events |-> [r.events EXCEPT ![i + 1] = re],
     index |-> [x \in (DOMAIN r.index) \cup {re.Row.ID} |->
                   IF x = re.Row.ID THEN i ELSE r.index[x]]]

\* RowEvents.Upsert: replace the event at the indexed position (the index is
\* left as it is), or Add.  A position past the end panics.
RowEventsUpsert(r, re) ==
    IF FindIndex(r, re.Row.ID)[2]
    THEN [r EXCEPT !.events[FindIndex(r, re.Row.ID)[1] + 1] = re]
    ELSE RowEventsAdd(r, re)

\* The sequence without its element at 0-based position victim.
RemoveAt(q, victim) == SubSeq(q, 1, victim) \o SubSeq(q, victim + 2, Len(q))

\* RowEvents.Delete, found: cut the event out, delete the key, reindex.
RowEventsDelete(r, fqn) ==
    Reindex([events |-> RemoveAt(r.events, FindIndex(r, fqn)[1]),
             index |-> [x \in (DOMAIN r.index) \ {fqn} |-> r.index[x]]])

\* RowEvents.Clear
RowEventsClear(r) == [events |-> <<>>, index |-> <<>>]

\* model1.NewTableData: nil header, its own empty row event collection.
NewTableData == [ver |-> 0, header |-> <<>>, rowEvents |-> NewRowEvents, errMsg |-> ""]

\* model1.TableData.SetHeader
SetHeader(t, h) == [t EXCEPT !.header = h]

\* model1.TableData.Empty
TableDataEmpty(t) == RowEventsEmpty(t.rowEvents)

\* model1.TableData.RowCount
RowCount(t) == Len(t.rowEvents.events)

\* model1.TableData.Clone: a shallow copy (same header, same rowEvents).
Clone(t) ==
    [ver |-> t.ver, header |-> t.header, rowEvents |-> t.rowEvents, errMsg |-> t.errMsg]

\* model1.TableData.SetError, HasError
SetError(t, msg) == [t EXCEPT !.errMsg = msg]
HasError(t) == t.errMsg # ""

\* renderer.Header(region): the renderers return a fixed header.
RendererHeader == <<"ID", "NAME">>

\* renderer.Render(obj, region, &row): fills the identifier and the fields.
Render(obj) == [ID |-> obj, Fields |-> <<obj, obj>>]

RECURSIVE RenderAllAbort(_, _, _)
RenderAllAbort(objects, bad, acc) ==
    IF objects = <<>> \/ Head(objects) \in bad THEN acc
    ELSE RenderAllAbort(Tail(objects), bad,
                        RowEventsAdd(acc, NewRowEvent("add", Render(Head(objects)))))

\* The loop of Refresh that converts the fetched objects: an object whose
\* rendering fails is skipped, every other one is added as an EventAdd.
RECURSIVE RenderAll(_, _, _)
RenderAll(objects, bad, acc) ==
    IF objects = <<>> THEN acc
    ELSE IF Head(objects) \in bad
         THEN RenderAll(Tail(objects), bad, acc)
         ELSE RenderAll(Tail(objects), bad,
                        RowEventsAdd(acc, NewRowEvent("add", Render(Head(objects)))))

\* ---------------------------------------------------------------- threads
\* pc: idle | w_refresh | r_fetch | r_write | n_snap | n_iter | w_go   (callers)
\*     none | select | parked | exited | r_fetch ... n_iter      (loops)
\* op: which call the thread is in: refresh (direct), watch, tick.
\* objects, rowEvents: the locals of Refresh; nkind, err: the notification being
\* made and the error it carries; snap, idx: the copied list and the position
\* of the notify loop.  History: nver, the write the notification is about;
\* delivered, the listeners called so far; hit (kept until Refresh notifies),
\* the loop's context was cancelled while its accessor.List call was in flight.
\* ret: what the caller's latest Refresh or Watch call returned ("nil" or the
\* error), "none" before its first call and during a call.  restart: the Watch
\* call this thread serves (the caller during the call, then the loop it starts)
\* found the engine stopped, its earlier watch cancelled by Stop.
Fresh == [pc |-> "idle", op |-> "none", ctx |-> Nil, err |-> "none",
          objects |-> <<>>, rowEvents |-> NewRowEvents, nkind |-> "none", nver |-> 0,
          snap |-> <<>>, idx |-> 0, delivered |-> <<>>, hit |-> FALSE,
          ret |-> "none", restart |-> FALSE]

\* The call of thread t returns r to its caller.
Return(r) == [Fresh EXCEPT !.ret = r]

Upd(p, r) == th' = [th EXCEPT ![p] = r]

\* The engine lock is free for a writer / for a reader.
CanLock == mx.w = Nil /\ mx.r = {}
CanRLock == mx.w = Nil

\* AddListener: append (no check for an identifier already registered).
AddListenerTo(ls, l) == Append(ls, l)

\* RemoveListener: remove the first entry equal to l, if any.
RECURSIVE RemoveListenerFrom(_, _)
RemoveListenerFrom(ls, l) ==
    IF ls = <<>> THEN <<>>
    ELSE IF Head(ls) = l THEN Tail(ls)
         ELSE <<Head(ls)>> \o RemoveListenerFrom(Tail(ls), l)

\* ---------------------------------------------------------------- ResourceCache
\* Keys are strings, modelled as sequences of characters; <<>> is "".  Times
\* and durations are whole seconds.
CacheKeys == {<<>>, <<"a">>, <<"a", "b">>}
CachePrefixes == {<<>>, <<"a">>, <<"b">>, <<"a", "b">>}
CacheValues == {"v", "w"}
CacheTTLs == {2}
\* A *CacheConfig is <<>> (nil) or <<the configuration>>.
CacheConfigs == {<<[DefaultTTL |-> 1, MaxEntries |-> MaxEntriesCfg]>>}

\* NewResourceCache: 5 seconds and 1000 entries unless the configuration gives
\* positive values.
NewResourceCache(cfg) ==
    [entries |-> <<>>,
     defaultTTL |-> IF cfg # <<>> /\ cfg[1].DefaultTTL > 0 THEN cfg[1].DefaultTTL ELSE 5,
     maxEntries |-> IF cfg # <<>> /\ cfg[1].MaxEntries > 0 THEN cfg[1].MaxEntries ELSE 1000]

\* The cache variables hold the cache c, at time 0 and before any call.
CacheIs(c) ==
    /\ entries = c.entries
    /\ defaultTTL = c.defaultTTL
    /\ maxEntries = c.maxEntries
    /\ now = 0
    /\ cres = [op |-> "none"]

\* The cache of the process while only the engine is looked at.
CacheIdle == CacheIs(NewResourceCache(<<>>))

\* delete(c.entries, key)
MapDelete(m, key) == [k \in (DOMAIN m) \ {key} |-> m[k]]

\* c.entries[key] = entry
MapPut(m, key, entry) ==
    [k \in (DOMAIN m) \cup {key} |-> IF k = key THEN entry ELSE m[k]]

\* Get finds the value: the entry exists and the clock is not after RefreshAt.
GetFound(key) == key \in DOMAIN entries /\ ~(now > entries[key].RefreshAt)

\* Get: <<value, found>>
GetResult(key) ==
    IF GetFound(key) THEN <<entries[key].Value, TRUE>> ELSE <<"nil", FALSE>>

\* SetWithTTL, the range loop at capacity: the keys it can end on.  The map is
\* ranged over in any order; the first key is taken and replaced only by a key
\* with a strictly earlier Timestamp, so the loop ends on any key that has the
\* earliest Timestamp.
OldestKeys(m) ==
    {k \in DOMAIN m : \A j \in DOMAIN m : ~(m[j].Timestamp < m[k].Timestamp)}

\* SetWithTTL, `if oldestKey != "" { delete(c.entries, oldestKey) }`.
EvictKey(m, oldestKey) == IF oldestKey # <<>> THEN MapDelete(m, oldestKey) ELSE m

\* The entry SetWithTTL stores.
NewEntry(value, ttl) ==
    [Value |-> value, Timestamp |-> now, TTL |-> ttl, RefreshAt |-> now + ttl]

\* len(key) >= len(prefix) && key[:len(prefix)] == prefix
HasPrefix(key, prefix) ==
    Len(key) >= Len(prefix) /\ SubSeq(key, 1, Len(prefix)) = prefix

\* time.Now() moves on.
CacheTick ==
    /\ now < MaxTime
    /\ now' = now + 1
    /\ UNCHANGED <<notCacheVars, entries, defaultTTL, maxEntries, cres>>

CacheGet(key) ==
    /\ cres' = [op |-> "get", key |-> key, value |-> GetResult(key)[1],
                found |-> GetResult(key)[2]]
    /\ UNCHANGED <<notCacheVars, entries, defaultTTL, maxEntries, now>>

\* SetWithTTL(key, value, ttl): at capacity evict, then store.
CacheSetWithTTL(key, value, ttl) ==
    /\ IF Cardinality(DOMAIN entries) >= maxEntries
       THEN \E oldestKey \in OldestKeys(entries) :
               entries' = MapPut(EvictKey(entries, oldestKey), key, NewEntry(value, ttl))
       ELSE entries' = MapPut(entries, key, NewEntry(value, ttl))
    /\ cres' = [op |-> "set", key |-> key]
    /\ UNCHANGED <<notCacheVars, defaultTTL, maxEntries, now>>

\* Set(key, value) is SetWithTTL with c.defaultTTL.
CacheSet(key, value) == CacheSetWithTTL(key, value, defaultTTL)

CacheDelete(key) ==
    /\ entries' = MapDelete(entries, key)
    /\ cres' = [op |-> "delete", key |-> key]
    /\ UNCHANGED <<notCacheVars, defaultTTL, maxEntries, now>>

PrefixVictimsExact(prefix) ==
    IF prefix = <<>> THEN {} ELSE {k \in DOMAIN entries : k = prefix}

\* The keys DeletePrefix deletes: none for the empty prefix.
PrefixVictims(prefix) ==
    IF prefix = <<>> THEN {} ELSE {k \in DOMAIN entries : HasPrefix(k, prefix)}

CacheDeletePrefix(prefix) ==
    /\ entries' = [k \in (DOMAIN entries) \ PrefixVictims(prefix) |-> entries[k]]
    /\ cres' = [op |-> "deleteprefix", key |-> prefix,
                count |-> Cardinality(PrefixVictims(prefix))]
    /\ UNCHANGED <<notCacheVars, defaultTTL, maxEntries, now>>

\* Invalidate (and Clear, which calls it): a new, empty map.
CacheInvalidate ==
    /\ entries' = <<>>
    /\ cres' = [op |-> "invalidate"]
    /\ UNCHANGED <<notCacheVars, defaultTTL, maxEntries, now>>

\* ---------------------------------------------------------------- RowEvents
\* The row events the calls are made with.
RowIds == {"a", "b", "c"}
RowEventArgs ==
    {NewRowEvent(k, [ID |-> id, Fields |-> <<id, k>>]) :
        k \in {"add", "update"}, id \in RowIds}

\* The collection as NewRowEvents makes it, before any call.
RowsIdle == rows = NewRowEvents /\ rres = "none"

RowsAdd(re) ==
    /\ rres # "panic" /\ Len(rows.events) < MaxRows
    /\ rows' = RowEventsAdd(rows, re)
    /\ rres' = "ok"
    /\ UNCHANGED notRowsVars

\* Set at a position of the sequence.
RowsSet(i, re) ==
    /\ rres # "panic" /\ i < Len(rows.events)
    /\ rows' = RowEventsSet(rows, i, re)
    /\ rres' = "ok"
    /\ UNCHANGED notRowsVars

\* Upsert; r.events[idx] = re with idx past the end is a run-time panic.
RowsUpsert(re) ==
    /\ rres # "panic"
    /\ FindIndex(rows, re.Row.ID)[2] \/ Len(rows.events) < MaxRows
    /\ IF FindIndex(rows, re.Row.ID)[2] /\ FindIndex(rows, re.Row.ID)[1] >= Len(rows.events)
       THEN rres' = "panic" /\ UNCHANGED rows
       ELSE rres' = "ok" /\ rows' = RowEventsUpsert(rows, re)
    /\ UNCHANGED notRowsVars

\* Delete: an error when the identifier is not in the index; a panic when the
\* indexed position is past the end (r.events[victim+1:] is out of range).
RowsDelete(fqn) ==
    /\ rres # "panic"
    /\ IF ~FindIndex(rows, fqn)[2]
       THEN rres' = "notfound" /\ UNCHANGED rows
       ELSE IF FindIndex(rows, fqn)[1] >= Len(rows.events)
            THEN rres' = "panic" /\ UNCHANGED rows
            ELSE rres' = "ok" /\ rows' = RowEventsDelete(rows, fqn)
    /\ UNCHANGED notRowsVars

RowsClear ==
    /\ rres # "panic"
    /\ rows' = RowEventsClear(rows)
    /\ rres' = "ok"
    /\ UNCHANGED notRowsVars

\* ---------------------------------------------------------------- row model
\* Sequences over S of length lo..hi.
SeqsOf(S, lo, hi) == UNION {[1..n -> S] : n \in lo..hi}

\* Header.IsTimeCol (col is 0-based)
IsTimeCol(h, col) == IF col < 0 \/ col >= Len(h) THEN FALSE ELSE h[col + 1].Time

NewDeltaRowWithTime(o, n, h) ==
    [i \in 1..Len(o.Fields) |->
        IF i > Len(n.Fields) THEN ""
        ELSE IF o.Fields[i] # "" /\ o.Fields[i] # n.Fields[i]
             THEN o.Fields[i] ELSE ""]

\* NewDeltaRow: as long as the old row; the old value where it is not empty,
\* differs from the new one and the column is not a time column.
NewDeltaRow(o, n, h) ==
    [i \in 1..Len(o.Fields) |->
        IF i > Len(n.Fields) THEN ""
        ELSE IF o.Fields[i] # "" /\ o.Fields[i] # n.Fields[i] /\ ~IsTimeCol(h, i - 1)
             THEN o.Fields[i] ELSE ""]

\* DeltaRow.IsBlank
IsBlank(d) == Len(d) = 0 \/ \A i \in 1..Len(d) : d[i] = ""

\* A slice is nil or holds elements: [isNil, s].  reflect.DeepEqual tells a nil
\* slice from an empty one.
NilSlice == [isNil |-> TRUE, s |-> <<>>]
Slice(q) == [isNil |-> FALSE, s |-> q]
DeepEqual(a, b) == a.isNil = b.isNil /\ a.s = b.s
\* d[lo:hi] (0-based, hi exclusive)
Sub(d, lo, hi) == [isNil |-> d.isNil, s |-> SubSeq(d.s, lo + 1, hi)]

DeltaRowDiffOneSided(d, r, ageCol) ==
    IF Len(d.s) > Len(r.s) THEN TRUE
    ELSE IF ageCol < 0 \/ ageCol >= Len(d.s)
         THEN ~DeepEqual(d, Sub(r, 0, Len(d.s)))
    ELSE IF ~DeepEqual(Sub(d, 0, ageCol), Sub(r, 0, ageCol)) THEN TRUE
    ELSE IF ageCol + 1 >= Len(d.s) THEN FALSE
    ELSE ~DeepEqual(Sub(d, ageCol + 1, Len(d.s)), Sub(r, ageCol + 1, Len(d.s)))

\* DeltaRow.Diff
DeltaRowDiff(d, r, ageCol) ==
    IF Len(d.s) # Len(r.s) THEN TRUE
    ELSE IF ageCol < 0 \/ ageCol >= Len(d.s) THEN ~DeepEqual(d, r)
    ELSE IF ~DeepEqual(Sub(d, 0, ageCol), Sub(r, 0, ageCol)) THEN TRUE
    ELSE IF ageCol + 1 >= Len(d.s) THEN FALSE
    ELSE ~DeepEqual(Sub(d, ageCol + 1, Len(d.s)), Sub(r, ageCol + 1, Len(r.s)))

\* Fields.Diff: the fields differ in length or at a column other than the age
\* column.
FieldsDiff(f, ff, ageCol) ==
    IF Len(f) # Len(ff) THEN TRUE
    ELSE \E i \in 1..Len(f) : i - 1 # ageCol /\ f[i] # ff[i]

\* Row.Diff
RowDiff(r, ro, ageCol) ==
    IF r.ID # ro.ID THEN TRUE ELSE FieldsDiff(r.Fields, ro.Fields, ageCol)

\* RowEvent.Diff
RowEventDiff(r, re, ageCol) ==
    IF r.Kind # re.Kind THEN TRUE
    ELSE IF DeltaRowDiff(r.Deltas, re.Deltas, ageCol) THEN TRUE
    ELSE RowDiff(r.Row, re.Row, ageCol)

\* The arguments the functions are applied to.
FieldValues == {"", "x", "y"}
Headers ==
    {[i \in 1..Len(t) |-> [Name |-> IF i = 1 THEN "ID" ELSE "AGE", Time |-> t[i]]] :
        t \in SeqsOf(BOOLEAN, 1, MaxCols)}
DeltaArgs ==
    {[fn |-> "NewDeltaRow", o |-> [ID |-> "a", Fields |-> fo],
      n |-> [ID |-> "a", Fields |-> fn], h |-> h] :
        fo \in SeqsOf(FieldValues, 0, MaxCols), fn \in SeqsOf(FieldValues, 0, MaxCols),
        h \in Headers}
DiffEvents ==
    {[Kind |-> k, Row |-> [ID |-> id, Fields |-> f], Deltas |-> d] :
        k \in {"add", "update"}, id \in {"a", "b"},
        f \in SeqsOf({"x", "y"}, MaxCols, MaxCols) \cup {<<"x">>},
        d \in {NilSlice, Slice(<<>>), Slice(<<"x", "">>)}
                \cup {Slice(q) : q \in SeqsOf({"", "x"}, MaxCols - 1, MaxCols - 1)}}
DiffArgs ==
    {[fn |-> "Diff", x |-> x, y |-> y, ageCol |-> a] :
        x \in DiffEvents, y \in DiffEvents, a \in -1..MaxCols}

\* ---------------------------------------------------------------- ordering
\* Strings are sequences of characters; Code is the byte of a character.
Digits == {"0", "1", "2", "5", "6", "9"}
Code(c) ==
    CASE c = "," -> 44 [] c = "/" -> 47
      [] c = "0" -> 48 [] c = "1" -> 49 [] c = "2" -> 50 [] c = "5" -> 53
      [] c = "6" -> 54 [] c = "9" -> 57
      [] c = "A" -> 65 [] c = "B" -> 66
      [] c = "a" -> 97 [] c = "b" -> 98 [] c = "d" -> 100 [] c = "h" -> 104
      [] c = "m" -> 109 [] c = "n" -> 110 [] c = "s" -> 115 [] c = "y" -> 121

\* s1 < s2 on strings: bytewise lexicographic.
RECURSIVE StrLess(_, _)
StrLess(s1, s2) ==
    IF s2 = <<>> THEN FALSE
    ELSE IF s1 = <<>> THEN TRUE
    ELSE IF Head(s1) # Head(s2) THEN Code(Head(s1)) < Code(Head(s2))
    ELSE StrLess(Tail(s1), Tail(s2))

\* The first position from i on (1-based) whose character is not in S.
RECURSIVE SkipWhile(_, _, _)
SkipWhile(str, i, S) ==
    IF i <= Len(str) /\ str[i] \in S THEN SkipWhile(str, i + 1, S) ELSE i

\* sortorder.NaturalLess from positions i1, i2 on: digits sort before other
\* characters, other characters compare bytewise, digit runs compare by value
\* and then by their number of leading zeros; when one string ends, the
\* shorter one is less.
RECURSIVE NaturalLessFrom(_, _, _, _)
NaturalLessFrom(str1, str2, i1, i2) ==
    IF i1 > Len(str1) \/ i2 > Len(str2) THEN Len(str1) < Len(str2)
    ELSE LET c1 == str1[i1]
             c2 == str2[i2]
             dig1 == c1 \in Digits
             dig2 == c2 \in Digits
             nonZero1 == SkipWhile(str1, i1, {"0"})
             nonZero2 == SkipWhile(str2, i2, {"0"})
             end1 == SkipWhile(str1, nonZero1, Digits)
             end2 == SkipWhile(str2, nonZero2, Digits)
             nr1 == SubSeq(str1, nonZero1, end1 - 1)
             nr2 == SubSeq(str2, nonZero2, end2 - 1)
         IN IF dig1 # dig2 THEN dig1
            ELSE IF ~dig1
                 THEN IF c1 # c2 THEN Code(c1) < Code(c2)
                      ELSE NaturalLessFrom(str1, str2, i1 + 1, i2 + 1)
            ELSE IF Len(nr1) # Len(nr2) THEN Len(nr1) < Len(nr2)
            ELSE IF nr1 # nr2 THEN StrLess(nr1, nr2)
            ELSE IF nonZero1 # nonZero2 THEN nonZero1 < nonZero2
            ELSE NaturalLessFrom(str1, str2, end1, end2)

NaturalLess(str1, str2) == NaturalLessFrom(str1, str2, 1, 1)

\* runesToNum: the runes read as a decimal number, each rune as its distance
\* from '0'.
RECURSIVE runesToNum(_)
runesToNum(rr) ==
    IF rr = <<>> THEN 0
    ELSE runesToNum(SubSeq(rr, 1, Len(rr) - 1)) * 10 + (Code(rr[Len(rr)]) - 48)

\* Every unit suffix taken as one second.
UnitSecondsFlat(r) == 1

\* The seconds of a unit suffix.
UnitSeconds(r) ==
    CASE r = "y" -> 365 * 24 * 60 * 60
      [] r = "d" -> 24 * 60 * 60
      [] r = "h" -> 60 * 60
      [] r = "m" -> 60
      [] r = "s" -> 1

\* The loop of durationToSeconds from position i on, with n summed and num
\* collected so far.
RECURSIVE durationLoop(_, _, _, _)
durationLoop(duration, i, n, num) ==
    IF i > Len(duration) THEN n
    ELSE IF duration[i] \in {"y", "d", "h", "m", "s"}
         THEN durationLoop(duration, i + 1,
                           n + runesToNum(num) * UnitSeconds(duration[i]), <<>>)
         ELSE durationLoop(duration, i + 1, n, Append(num, duration[i]))

NAValue == <<"n", "/", "a">>

durationToSeconds(duration) ==
    IF duration = <<>> \/ duration = NAValue THEN 0
    ELSE durationLoop(duration, 1, 0, <<>>)

lessDuration(s1, s2) == durationToSeconds(s1) <= durationToSeconds(s2)

lessCapacity(s1, s2) == NaturalLess(s1, s2)

\* strings.ReplaceAll(s, ",", "")
StripCommas(str) == SelectSeq(str, LAMBDA c : c # ",")

lessNumber(s1, s2) == NaturalLess(StripCommas(s1), StripCommas(s2))

Less(isNumber, isDuration, isCapacity, id1, id2, v1, v2) ==
    LET less == IF isNumber THEN lessNumber(v1, v2)
                ELSE IF isDuration THEN lessDuration(v1, v2)
                ELSE IF isCapacity THEN lessCapacity(v1, v2)
                ELSE NaturalLess(v1, v2)
    IN IF v1 = v2 THEN NaturalLess(id1, id2) ELSE less

\* The arguments Less is applied to.
LessValues ==
    SeqsOf({"1", ",", "h", "m"}, 0, MaxValueLen)
    \cup {NAValue, <<"6", "0", "m">>, <<"9", "0", "m">>, <<"5", "h">>, <<"2", "d">>,
          <<"1", "h", "1", "m">>, <<"1", "y">>, <<"1", "0", "s">>}
LessIds == {<<"a", "9">>, <<"a", "1", "0">>}
LessArgs ==
    {[fn |-> "Less", isNumber |-> f[1], isDuration |-> f[2], isCapacity |-> f[3],
      id1 |-> i1, id2 |-> i2, v1 |-> v1, v2 |-> v2] :
        f \in {<<TRUE, FALSE, FALSE>>, <<FALSE, TRUE, FALSE>>, <<FALSE, FALSE, TRUE>>,
                <<FALSE, FALSE, FALSE>>, <<TRUE, TRUE, TRUE>>},
        i1 \in LessIds, i2 \in LessIds, v1 \in LessValues, v2 \in LessValues}

\* Less for rows A and B, both ways round.
ApplyLess ==
    /\ args.fn = "Less" /\ result.fn = "none"
    /\ result' = [fn |-> "Less",
                  ab |-> Less(args.isNumber, args.isDuration, args.isCapacity,
                              args.id1, args.id2, args.v1, args.v2),
                  ba |-> Less(args.isNumber, args.isDuration, args.isCapacity,
                              args.id2, args.id1, args.v2, args.v1)]
    /\ UNCHANGED <<notPureVars, args>>

\* No function of the row model has been applied.
PureIdle == args = [fn |-> "none"] /\ result = [fn |-> "none"]

\* NewDeltaRow(o, n, h) and IsBlank of its result.
ApplyNewDeltaRow ==
    /\ args.fn = "NewDeltaRow" /\ result.fn = "none"
    /\ result' = [fn |-> "NewDeltaRow",
                  value |-> NewDeltaRow(args.o, args.n, args.h),
                  blank |-> IsBlank(NewDeltaRow(args.o, args.n, args.h))]
    /\ UNCHANGED <<notPureVars, args>>

\* x.Diff(y, ageCol), y.Diff(x, ageCol) and x.Diff(x, ageCol)
ApplyDiff ==
    /\ args.fn = "Diff" /\ result.fn = "none"
    /\ result' = [fn |-> "Diff",
                  xy |-> RowEventDiff(args.x, args.y, args.ageCol),
                  yx |-> RowEventDiff(args.y, args.x, args.ageCol),
                  xx |-> RowEventDiff(args.x, args.x, args.ageCol)]
    /\ UNCHANGED <<notPureVars, args>>

\* ---------------------------------------------------------------- ui table
TableThreads == 201..(200 + NumTableThreads)
\* The application's event goroutine: the key actions (resource_table.go 145,
\* view/app.go 448) and the view's set-up run on it, one at a time.  The other
\* threads are the goroutines that call the table: a model telling its
\* listeners, and refresh.
UIThread == 201

\* A tview.TableCell: its text (a sequence of characters or of words) and its
\* reference (<<>> when it has none).
Cell(text, ref) == [Text |-> text, Reference |-> ref]
NilCell == Cell(<<>>, <<>>)

\* tview.Table.SetCell(row, col, cell) on the cells cs: the table grows to hold
\* the row and the row to hold the column.
SetCell(cs, row, col, cell) ==
    LET ext == IF row >= Len(cs)
               THEN cs \o [i \in 1..(row + 1 - Len(cs)) |-> <<>>] ELSE cs
        r == ext[row + 1]
        rext == IF col >= Len(r)
                THEN r \o [i \in 1..(col + 1 - Len(r)) |-> NilCell] ELSE r
    IN [ext EXCEPT ![row + 1] = [rext EXCEPT ![col + 1] = cell]]

\* tview.Table.GetRowCount
GetRowCount(cs) == Len(cs)

\* showMessage (showNoData, showError): Clear, then the message in cell (0, 0).
showMessage(msg) == SetCell(<<>>, 0, 0, Cell(<<msg>>, <<>>))

\* The header cell buildHeader makes for column col: the name, marked when it
\* strings.ToLower
ToLower(str) ==
    [i \in 1..Len(str) |-> IF str[i] = "A" THEN "a" ELSE IF str[i] = "B" THEN "b" ELSE str[i]]

\* strings.Contains
Contains(str, substr) ==
    \E i \in 0..(Len(str) - Len(substr)) : SubSeq(str, i + 1, i + Len(substr)) = substr

\* The rows applyFilter keeps: those with a field that contains the filter,
\* whatever the case of the field.
RECURSIVE FilterRows(_, _, _)
FilterRows(events, filter, acc) ==
    IF events = <<>> THEN acc
    ELSE FilterRows(Tail(events), filter,
                    IF \E i \in 1..Len(Head(events).Row.Fields) :
                           Contains(ToLower(Head(events).Row.Fields[i]), filter)
                    THEN RowEventsAdd(acc, Head(events)) ELSE acc)

\* The filtered table data applyFilter builds from data.
Filtered(d, filter) ==
    [SetHeader(NewTableData, d.header) EXCEPT
        !.rowEvents = FilterRows(d.rowEvents.events, filter, NewRowEvents)]

\* The snapshots handed to the table.  ver names the snapshot.
TableHeader ==
    <<[Name |-> "NAME", Time |-> FALSE, Capacity |-> FALSE],
      [Name |-> "AGE", Time |-> TRUE, Capacity |-> FALSE]>>
RowA == [ID |-> <<"a">>, Fields |-> << <<"A", "b">>, <<"5", "h">> >>]
RowB == [ID |-> <<"b">>, Fields |-> << <<"b">>, <<"9", "0", "m">> >>]
DataFull ==
    [SetHeader(NewTableData, TableHeader) EXCEPT
        !.ver = 1,
        !.rowEvents = RowEventsAdd(RowEventsAdd(NewRowEvents, NewRowEvent("add", RowA)),
                                   NewRowEvent("add", RowB))]
\* The snapshot an engine holds after a Refresh: the header, and no row.
DataEmpty == [SetHeader(NewTableData, TableHeader) EXCEPT !.ver = 2]
DataError == [SetError(NewTableData, "denied") EXCEPT !.ver = 3]
\* What the model's Peek returns: a clone of the engine's snapshot, which is
\* never nil and never holds a row.
PeekResults == {DataEmpty}
\* What UpdateUI is given: nil, or a pointer to a snapshot (the views hand it
\* snapshots with rows, the engine snapshots without).
UpdateArgs == {<<>>, <<DataFull>>, <<DataEmpty>>, <<DataError>>}
\* The filter texts typed.
Filters == {<<>>, <<"A">>, <<"z">>}

\* The table as a listener of its model.
TableListener == NumListeners + 1
\* What SetModel is given: nil or the engine.
Models == {Nil, 1}

\* pc: the next access of the call to what the threads share
\*     idle | s_clear | s_cell (showMessage) | a_read (applyFilter)
\*     r_clear | r_header | r_sort | r_hcell | r_cell (renderData)
\*     t_model | t_ns | t_data | t_dns | t_count | t_set | t_title (updateTitle)
\*     u_release | u_unwind (the deferred function of UpdateUI)
\*     l_title (TableLoadFailed) | m_store | m_add (SetModel)
\*     f_peek | f_update (the refresh goroutine) | panicked
\* op: the call the thread is in; data: the data being rendered; guard: the
\* call set isUpdating; row, col: the positions of the loops of renderData and
\* buildHeader; mark: what buildHeader found comparing the column's name with
\* r.sortColName; msg: the message showMessage shows; cnt: the count updateTitle
\* read; m: the argument of SetModel.
\* ret: "skipped" when the thread's latest call was an UpdateUI that found the
\* guard set, "none" otherwise.
TFresh == [pc |-> "idle", op |-> "none", data |-> <<>>, guard |-> FALSE,
           row |-> 0, col |-> 0, mark |-> FALSE, msg |-> "", cnt |-> 0, m |-> Nil,
           ret |-> "none"]

TReturn(r) == [TFresh EXCEPT !.ret = r]

TUpd(t, r) == tth' = [tth EXCEPT ![t] = r]

\* After NewResourceTable and Init: no model, no data, the loading message.
TableIdle ==
    /\ model = Nil
    /\ header = <<>>
    /\ sortColName = ""
    /\ filterText = <<>>
    /\ fullData = <<>>
    /\ isUpdating = FALSE
    /\ cells = showMessage("Loading...")
    /\ title = [error |-> FALSE, count |-> 0]
    /\ pending = 0
    /\ tth = [t \in TableThreads |-> TFresh]

\* The end of a call's last function: UpdateUI goes on to its deferred
\* function, every other call returns.
TableDone(t) ==
    IF tth[t].guard THEN [TFresh EXCEPT !.pc = "u_release", !.op = tth[t].op, !.guard = TRUE]
    ELSE TReturn("none")

\* The program has ended in a panic.
Panicked == \E t \in TableThreads : tth[t].pc = "panicked"

\* A SetModel call holds the table's lock r.mx, from its first line to its
\* return.
TableLocked == \E t \in TableThreads : tth[t].pc \in {"m_store", "m_add"}

\* The program ends: no thread takes another step.
Exit(ths) == [u \in TableThreads |-> [ths[u] EXCEPT !.pc = "panicked"]]

\* The panic of a nil dereference in thread t.  Nothing recovers it.  The
\* deferred function of an UpdateUI on the thread's stack runs first, while the
\* other threads go on; then the program ends.
Panic(t) ==
    IF tth[t].guard THEN TUpd(t, [tth[t] EXCEPT !.pc = "u_unwind"])
    ELSE tth' = Exit(tth)

\* What a step that only moves its thread leaves alone.
TableKeeps ==
    UNCHANGED <<notTableVars, model, header, sortColName, filterText, fullData,
                isUpdating, cells, title, pending>>

\* SetModel(m), lines 201-206: the table's lock is taken, and the table is
\* removed from the listeners of the model in place, under that model's lock.
SetModel(t, m) ==
    /\ t = UIThread
    /\ tth[t].pc = "idle"
    /\ ~TableLocked
    /\ model = 1 => CanLock
    /\ listeners' = IF model = 1 THEN RemoveListenerFrom(listeners, TableListener)
                    ELSE listeners
    /\ TUpd(t, [TFresh EXCEPT !.pc = "m_store", !.op = "SetModel", !.m = m])
    /\ UNCHANGED <<cacheVars, rowsVars, pureVars, accessor, renderer, data, cancelFn,
                   cancelled, nctx, ticker, th, nrefresh, lastBuilt, stopNoop, mx,
                   model, header, sortColName, filterText, fullData, isUpdating, cells,
                   title, pending>>

\* SetModel, line 207: the new model is stored.
SetModelStore(t) ==
    /\ tth[t].pc = "m_store"
    /\ model' = tth[t].m
    /\ TUpd(t, [tth[t] EXCEPT !.pc = "m_add"])
    /\ UNCHANGED <<notTableVars, header, sortColName, filterText, fullData,
                   isUpdating, cells, title, pending>>

\* SetModel, lines 208-211: the table is added to the listeners of the new
\* model, under that model's lock, and the table's lock is released.
SetModelAdd(t) ==
    /\ tth[t].pc = "m_add"
    /\ tth[t].m = 1 => CanLock
    /\ listeners' = IF tth[t].m = 1 THEN AddListenerTo(listeners, TableListener)
                    ELSE listeners
    /\ TUpd(t, TReturn("none"))
    /\ UNCHANGED <<cacheVars, rowsVars, pureVars, accessor, renderer, data, cancelFn,
                   cancelled, nctx, ticker, th, nrefresh, lastBuilt, stopNoop, mx,
                   model, header, sortColName, filterText, fullData, isUpdating, cells,
                   title, pending>>

\* Where renderData(d) of the call in rec makes its first access: showNoData
\* for nil or empty data (313-314), Clear otherwise (319).
RenderOf(rec, d) ==
    IF d = <<>> \/ TableDataEmpty(d[1])
    THEN [rec EXCEPT !.pc = "s_clear", !.msg = "No matching resources", !.data = <<>>]
    ELSE [rec EXCEPT !.pc = "r_clear", !.data = d]

\* Where UpdateUI(d) goes after its head (465-482), having read the filter
\* text: the error of an error snapshot, "No resources found" for nil or empty
\* data, applyFilter under a filter, renderData otherwise.
BodyOf(rec, d, filter) ==
    IF d # <<>> /\ HasError(d[1])
    THEN [rec EXCEPT !.pc = "s_clear", !.msg = d[1].errMsg]
    ELSE IF d = <<>> \/ TableDataEmpty(d[1])
    THEN [rec EXCEPT !.pc = "s_clear", !.msg = "No resources found"]
    ELSE IF filter # <<>> THEN [rec EXCEPT !.pc = "a_read"]
    ELSE RenderOf(rec, d)

\* UpdateUI taking the guard without its deferred function on the path of an
\* error snapshot.
UpdateUIHeadNoDefer(t, d, op) ==
    IF isUpdating
    THEN /\ TUpd(t, TReturn("skipped"))
         /\ UNCHANGED <<isUpdating, fullData>>
    ELSE /\ isUpdating' = TRUE
         /\ fullData' = d
         /\ TUpd(t, BodyOf([TFresh EXCEPT !.op = op,
                                          !.guard = ~(d # <<>> /\ HasError(d[1]))],
                           d, filterText))

\* The locked head of UpdateUI(d), lines 448-462, in the call op of thread t:
\* skipped when the guard is set; otherwise the guard is taken, d stored, the
\* filter text read and the release deferred.
UpdateUIHead(t, d, op) ==
    IF isUpdating
    THEN /\ TUpd(t, TReturn("skipped"))
         /\ UNCHANGED <<isUpdating, fullData>>
    ELSE /\ isUpdating' = TRUE
         /\ fullData' = d
         /\ TUpd(t, BodyOf([TFresh EXCEPT !.op = op, !.guard = TRUE], d, filterText))

\* UpdateUI(data) is called.  TableDataChanged(data) is this call.
UpdateUI(t, d) ==
    /\ tth[t].pc = "idle"
    /\ ~TableLocked
    /\ UpdateUIHead(t, d, "UpdateUI")
    /\ UNCHANGED <<notTableVars, model, header, sortColName, filterText, cells, title,
                   pending>>

\* The deferred function of UpdateUI, lines 458-462: the guard is released.
UpdateUIRelease(t) ==
    /\ tth[t].pc = "u_release"
    /\ ~TableLocked
    /\ isUpdating' = FALSE
    /\ TUpd(t, TReturn("none"))
    /\ UNCHANGED <<notTableVars, model, header, sortColName, filterText,
                   fullData, cells, title, pending>>

\* The deferred function of UpdateUI run by a panic: the guard is released,
\* and the program ends.
UpdateUIUnwind(t) ==
    /\ tth[t].pc = "u_unwind"
    /\ ~TableLocked
    /\ isUpdating' = FALSE
    /\ tth' = Exit([tth EXCEPT ![t].guard = FALSE])
    /\ UNCHANGED <<notTableVars, model, header, sortColName, filterText,
                   fullData, cells, title, pending>>

\* showMessage, line 191: Clear.
showMessageClear(t) ==
    /\ tth[t].pc = "s_clear"
    /\ cells' = <<>>
    /\ TUpd(t, [tth[t] EXCEPT !.pc = "s_cell"])
    /\ UNCHANGED <<notTableVars, model, header, sortColName, filterText, fullData,
                   isUpdating, title, pending>>

\* showMessage, lines 192-196: the message is set in cell (0, 0); the caller
\* goes on to updateTitle.
showMessageCell(t) ==
    /\ tth[t].pc = "s_cell"
    /\ cells' = SetCell(cells, 0, 0, Cell(<<tth[t].msg>>, <<>>))
    /\ TUpd(t, [tth[t] EXCEPT !.pc = "t_model", !.msg = ""])
    /\ UNCHANGED <<notTableVars, model, header, sortColName, filterText, fullData,
                   isUpdating, title, pending>>

\* SetFilter(filter), lines 263-265: the text is stored; applyFilter follows.
SetFilter(t, filter) ==
    /\ t = UIThread
    /\ tth[t].pc = "idle"
    /\ ~TableLocked
    /\ filterText' = filter
    /\ TUpd(t, [TFresh EXCEPT !.pc = "a_read", !.op = "SetFilter"])
    /\ UNCHANGED <<notTableVars, model, header, sortColName, fullData,
                   isUpdating, cells, title, pending>>

\* ClearFilter()
ClearFilter(t) == SetFilter(t, <<>>)

\* applyFilter, lines 276-308: the stored data and the filter are read under
\* the lock; nil data ends the call, no filter renders the data, a filter
\* renders the rows it keeps, collected in a new snapshot.
applyFilter(t) ==
    /\ tth[t].pc = "a_read"
    /\ ~TableLocked
    /\ LET filter == ToLower(filterText)
       IN TUpd(t, IF fullData = <<>> THEN TableDone(t)
                  ELSE IF filter = <<>> THEN RenderOf(tth[t], fullData)
                  ELSE RenderOf(tth[t], <<Filtered(fullData[1], filter)>>))
    /\ TableKeeps

\* renderData, line 319: Clear.
renderData(t) ==
    /\ tth[t].pc = "r_clear"
    /\ cells' = <<>>
    /\ TUpd(t, [tth[t] EXCEPT !.pc = "r_header"])
    /\ UNCHANGED <<notTableVars, model, header, sortColName, filterText, fullData,
                   isUpdating, title, pending>>

\* The place of the first cell buildRow sets from row index row (0-based) and
\* column col on, <<>> when the loops set no further cell: a row has a cell
\* for each of its fields while the header has a column for it.
RECURSIVE CellFrom(_, _, _)
CellFrom(d, row, col) ==
    IF row >= Len(d.rowEvents.events) THEN <<>>
    ELSE IF col < Len(d.rowEvents.events[row + 1].Row.Fields) /\ col < Len(d.header)
    THEN <<row, col>>
    ELSE CellFrom(d, row + 1, 0)

\* The loops of renderData (324-330) and buildRow (364-383) going on from row
\* and col: to the next cell, or to updateTitle (332).
RowsOfRender(rec, row, col) ==
    LET next == CellFrom(rec.data[1], row, col)
    IN IF next = <<>>
       THEN [rec EXCEPT !.pc = "t_model", !.row = 0, !.col = 0, !.data = <<>>]
       ELSE [rec EXCEPT !.pc = "r_cell", !.row = next[1], !.col = next[2]]

\* buildHeader, lines 341-343: the header is stored under the lock; then the
\* loop over its columns begins.
buildHeader(t) ==
    /\ tth[t].pc = "r_header"
    /\ ~TableLocked
    /\ header' = tth[t].data[1].header
    /\ TUpd(t, IF Len(header') = 0 THEN RowsOfRender(tth[t], 0, 0)
               ELSE [tth[t] EXCEPT !.pc = "r_sort", !.col = 0])
    /\ UNCHANGED <<notTableVars, model, sortColName, filterText, fullData,
                   isUpdating, cells, title, pending>>

\* buildHeader, line 353: the column's name is compared with r.sortColName,
\* read without the lock.
buildHeaderSort(t) ==
    /\ tth[t].pc = "r_sort"
    /\ TUpd(t, [tth[t] EXCEPT
                   !.pc = "r_hcell",
                   !.mark = (tth[t].data[1].header[tth[t].col + 1].Name = sortColName)])
    /\ TableKeeps

\* The header cell buildHeader makes for column col: the name, marked when it
\* was found to be the sort column's.
headerCell(h, col, mark) ==
    Cell(IF mark THEN <<h[col + 1].Name, "sorted">> ELSE <<h[col + 1].Name>>, <<>>)

\* buildHeader, line 358: the cell of the column is set.
buildHeaderCell(t) ==
    /\ tth[t].pc = "r_hcell"
    /\ LET h == tth[t].data[1].header
           col == tth[t].col
       IN /\ cells' = SetCell(cells, 0, col, headerCell(h, col, tth[t].mark))
          /\ TUpd(t, IF col + 1 >= Len(h)
                     THEN RowsOfRender([tth[t] EXCEPT !.mark = FALSE], 0, 0)
                     ELSE [tth[t] EXCEPT !.pc = "r_sort", !.col = col + 1, !.mark = FALSE])
    /\ UNCHANGED <<notTableVars, model, header, sortColName, filterText,
                   fullData, isUpdating, title, pending>>

\* buildRow, line 382: one cell of a row is set; the first cell of a row refers
\* to the row's identifier.
buildRow(t) ==
    /\ tth[t].pc = "r_cell"
    /\ LET r == tth[t].data[1].rowEvents.events[tth[t].row + 1].Row
           col == tth[t].col
       IN cells' = SetCell(cells, tth[t].row + 1, col,
                           Cell(r.Fields[col + 1], IF col = 0 THEN r.ID ELSE <<>>))
    /\ TUpd(t, RowsOfRender(tth[t], tth[t].row, tth[t].col + 1))
    /\ UNCHANGED <<notTableVars, model, header, sortColName, filterText, fullData,
                   isUpdating, title, pending>>

\* The 0-based position of the sort column in the header, -1 when it has none.
currentIdx(h, name) ==
    IF \E i \in 1..Len(h) : h[i].Name = name
    THEN (CHOOSE i \in 1..Len(h) : h[i].Name = name /\ \A j \in 1..(i - 1) : h[j].Name # name) - 1
    ELSE -1

\* sortHandler, under the lock: without a header nothing; otherwise the name of
\* the next column is recorded and a refresh goroutine started.
sortHandler(t) ==
    /\ t = UIThread
    /\ tth[t].pc = "idle"
    /\ ~TableLocked
    /\ pending < MaxPending
    /\ IF header = <<>>
       THEN UNCHANGED <<sortColName, pending>>
       ELSE /\ sortColName' = header[((currentIdx(header, sortColName) + 1) % Len(header)) + 1].Name
            /\ pending' = pending + 1
    /\ TUpd(t, TReturn("none"))
    /\ UNCHANGED <<notTableVars, model, header, filterText, fullData, isUpdating, cells,
                   title>>

\* refresh, run by a goroutine, line 487: r.model is tested without the lock;
\* without a model the goroutine ends.
refresh(t) ==
    /\ t # UIThread
    /\ tth[t].pc = "idle"
    /\ pending > 0
    /\ pending' = pending - 1
    /\ TUpd(t, IF model = Nil THEN TReturn("none")
               ELSE [TFresh EXCEPT !.pc = "f_peek", !.op = "refresh"])
    /\ UNCHANGED <<notTableVars, model, header, sortColName, filterText,
                   fullData, isUpdating, cells, title>>

\* refresh, line 488: r.model.Peek().  r.model is named again, without the
\* lock, while SetModel may write it: the call is made on the model tested at
\* line 487 or on the one in place now, and on nil it panics.
refreshPeek(t) ==
    /\ tth[t].pc = "f_peek"
    /\ \/ model = Nil /\ Panic(t)
       \/ \E d \in PeekResults :
             TUpd(t, [tth[t] EXCEPT !.pc = "f_update", !.data = <<d>>])
    /\ TableKeeps

\* refresh, line 489: UpdateUI(data), its locked head.
refreshUpdateUI(t) ==
    /\ tth[t].pc = "f_update"
    /\ ~TableLocked
    /\ UpdateUIHead(t, tth[t].data, "refresh")
    /\ UNCHANGED <<notTableVars, model, header, sortColName, filterText, cells,
                   title, pending>>

\* TableLoadFailed(err), line 500: Clear.
TableLoadFailed(t) ==
    /\ t # UIThread
    /\ tth[t].pc = "idle"
    /\ cells' = <<>>
    /\ TUpd(t, [TFresh EXCEPT !.pc = "l_title", !.op = "TableLoadFailed"])
    /\ UNCHANGED <<notTableVars, model, header, sortColName, filterText, fullData,
                   isUpdating, title, pending>>

\* TableLoadFailed, lines 501-502: the title names the error.
TableLoadFailedTitle(t) ==
    /\ tth[t].pc = "l_title"
    /\ title' = [error |-> TRUE, count |-> 0]
    /\ TUpd(t, TReturn("none"))
    /\ UNCHANGED <<notTableVars, model, header, sortColName, filterText, fullData,
                   isUpdating, cells, pending>>

\* TableNoData(data), line 507: showNoData, whose Clear this is.
TableNoData(t) ==
    /\ t # UIThread
    /\ tth[t].pc = "idle"
    /\ cells' = <<>>
    /\ TUpd(t, [TFresh EXCEPT !.pc = "s_cell", !.op = "TableNoData",
                              !.msg = "No resources found"])
    /\ UNCHANGED <<notTableVars, model, header, sortColName, filterText, fullData,
                   isUpdating, title, pending>>

\* updateTitle, line 424: r.model is tested, without the lock.
updateTitle(t) ==
    /\ tth[t].pc = "t_model"
    /\ TUpd(t, [tth[t] EXCEPT !.pc = IF model # Nil THEN "t_ns" ELSE "t_data"])
    /\ TableKeeps

\* updateTitle, line 425: r.model.GetNamespace().  r.model is named again,
\* without the lock, while SetModel may write it: the call is made on the model
\* tested at line 424 or on the one in place now, and on nil it panics.
updateTitleModelNs(t) ==
    /\ tth[t].pc = "t_ns"
    /\ \/ model = Nil /\ Panic(t)
       \/ TUpd(t, [tth[t] EXCEPT !.pc = "t_count"])
    /\ TableKeeps

\* updateTitle, line 429: without a model, r.fullData is tested, without the
\* lock.
updateTitleData(t) ==
    /\ tth[t].pc = "t_data"
    /\ TUpd(t, [tth[t] EXCEPT !.pc = IF fullData # <<>> THEN "t_dns" ELSE "t_count"])
    /\ TableKeeps

\* updateTitle, line 430: r.fullData.Namespace().  r.fullData is named again,
\* without the lock, while UpdateUI may write it: the call is made on the data
\* tested at line 429 or on the one in place now, and on nil it panics.
updateTitleDataNs(t) ==
    /\ tth[t].pc = "t_dns"
    /\ \/ fullData = <<>> /\ Panic(t)
       \/ TUpd(t, [tth[t] EXCEPT !.pc = "t_count"])
    /\ TableKeeps

\* updateTitle, lines 436-437: the number of rows is tested; with no row under
\* the header the count is 0.
updateTitleCount(t) ==
    /\ tth[t].pc = "t_count"
    /\ TUpd(t, [tth[t] EXCEPT !.pc = IF GetRowCount(cells) > 1 THEN "t_set" ELSE "t_title",
                              !.cnt = 0])
    /\ TableKeeps

\* updateTitle, line 438: the number of rows is read again; the count is that
\* number less one.
updateTitleSet(t) ==
    /\ tth[t].pc = "t_set"
    /\ TUpd(t, [tth[t] EXCEPT !.pc = "t_title", !.cnt = GetRowCount(cells) - 1])
    /\ TableKeeps

\* updateTitle, lines 441-443: SetTitle with the count; the caller's last
\* function is over (renderData then selects the first row, 334-336; the
\* selection is not part of the state).
updateTitleTitle(t) ==
    /\ tth[t].pc = "t_title"
    /\ title' = [error |-> FALSE, count |-> tth[t].cnt]
    /\ TUpd(t, TableDone(t))
    /\ UNCHANGED <<notTableVars, model, header, sortColName, filterText, fullData,
                   isUpdating, cells, pending>>

\* ---------------------------------------------------------------- engine
EngineInit ==
    /\ accessor = FALSE
    /\ renderer = FALSE
    /\ data = NewTableData
    /\ listeners = <<>>
    /\ cancelFn = Nil
    /\ cancelled = {}
    /\ nctx = 0
    /\ ticker = [c \in Loops |-> FALSE]
    /\ th = [p \in Threads |-> IF p \in Callers THEN Fresh
                                ELSE [Fresh EXCEPT !.pc = "none"]]
    /\ nrefresh = 0
    /\ lastBuilt = 0
    /\ stopNoop = FALSE
    /\ mx = [w |-> Nil, r |-> {}]

Init == EngineInit /\ CacheIdle /\ RowsIdle /\ PureIdle /\ TableIdle

\* ---------------------------------------------------------------- listeners
\* SetAccessor / SetRenderer with a non-nil value.
SetAccessor ==
    /\ CanLock
    /\ accessor' = TRUE
    /\ UNCHANGED <<otherVars, renderer, data, listeners, cancelFn, cancelled, nctx, ticker,
                   th, nrefresh, lastBuilt, stopNoop, mx>>

SetRenderer ==
    /\ CanLock
    /\ renderer' = TRUE
    /\ UNCHANGED <<otherVars, accessor, data, listeners, cancelFn, cancelled, nctx, ticker,
                   th, nrefresh, lastBuilt, stopNoop, mx>>

AddListener(l) ==
    /\ CanLock
    /\ Len(listeners) < MaxListeners
    /\ listeners' = AddListenerTo(listeners, l)
    /\ UNCHANGED <<otherVars, accessor, renderer, data, cancelFn, cancelled, nctx, ticker,
                   th, nrefresh, lastBuilt, stopNoop, mx>>

RemoveListener(l) ==
    /\ CanLock
    /\ listeners' = RemoveListenerFrom(listeners, l)
    /\ UNCHANGED <<otherVars, accessor, renderer, data, cancelFn, cancelled, nctx, ticker,
                   th, nrefresh, lastBuilt, stopNoop, mx>>

\* Peek: a clone of the current snapshot, read under the read lock.
Peek == Clone(data)

\* ---------------------------------------------------------------- Refresh
\* What the caller of Refresh does with a non-nil error: Watch (127-130) and
\* watchLoop (155-157) call notifyLoadFailed, a direct caller just gets the error.
AfterError(t, err) ==
    IF t.op = "refresh"
    THEN Return(err)
    ELSE [t EXCEPT !.pc = "n_snap", !.nkind = "loadfailed", !.err = err,
                   !.hit = FALSE]

RefreshBeginNoCheck(t) == [t EXCEPT !.pc = "r_fetch"]

\* Refresh, lines 164-176: read the configuration under the read lock; a missing
\* accessor or renderer is an error returned at once, otherwise List is called.
RefreshBegin(t) ==
    IF ~accessor THEN AfterError(t, "noaccessor")
    ELSE IF ~renderer THEN AfterError(t, "norenderer")
    ELSE [t EXCEPT !.pc = "r_fetch"]

\* A context's cancel function: the context becomes cancelled, and a watchLoop
\* blocked in its select on that context wakes on ctx.Done() and returns.
CancelCtx(c, t) ==
    IF c = Nil THEN t
    ELSE IF t[c].pc = "parked" THEN [t EXCEPT ![c].pc = "exited"]
    ELSE IF t[c].pc = "r_fetch" THEN [t EXCEPT ![c].hit = TRUE]
    ELSE t

\* The Refresh calls Watch has made so far: one for each context, but for the
\* Watch calls that have not begun theirs.
WatchRefreshes == nctx - Cardinality({p \in Callers : th[p].pc = "w_refresh"})

\* Another Refresh may be made directly or by a tick.
CanRefresh == nrefresh - WatchRefreshes < MaxRefresh

\* Watch, lines 118-124: under the lock, cancel the existing watch if any,
\* derive a new context and keep its cancel function; the lock is released
\* before the initial Refresh.
Watch(p) ==
    /\ th[p].pc = "idle" /\ CanLock
    /\ nctx < MaxWatch
    /\ cancelled' = IF cancelFn # Nil THEN cancelled \cup {cancelFn} ELSE cancelled
    /\ nctx' = nctx + 1
    /\ cancelFn' = nctx + 1
    /\ th' = [CancelCtx(cancelFn, th) EXCEPT
                 ![p] = [Fresh EXCEPT !.pc = "w_refresh", !.op = "watch",
                                      !.ctx = nctx + 1,
                                      !.restart = (cancelFn = Nil /\ nctx > 0)]]
    /\ stopNoop' = FALSE
    /\ UNCHANGED <<otherVars, accessor, renderer, data, listeners, ticker, nrefresh,
                   lastBuilt, mx>>

\* Watch, line 127: the initial Refresh begins with the new context; it reads
\* the configuration under its own read lock (lines 164-176).
WatchRefresh(p) ==
    /\ th[p].pc = "w_refresh" /\ CanRLock
    /\ Upd(p, RefreshBegin(th[p]))
    /\ nrefresh' = nrefresh + 1
    /\ UNCHANGED <<otherVars, accessor, renderer, data, listeners, cancelFn, cancelled, nctx,
                   ticker, lastBuilt, stopNoop, mx>>

StopNoCheck ==
    /\ CanLock
    /\ cancelled' = cancelled \cup {cancelFn}
    /\ cancelFn' = Nil
    /\ th' = CancelCtx(cancelFn, th)
    /\ stopNoop' = (cancelFn = Nil)
    /\ UNCHANGED <<otherVars, accessor, renderer, data, listeners, nctx, ticker, nrefresh,
                   lastBuilt, mx>>

\* Stop: under the lock, cancel the current watch if there is one and forget it.
Stop ==
    /\ CanLock
    /\ IF cancelFn # Nil
       THEN /\ cancelled' = cancelled \cup {cancelFn}
            /\ cancelFn' = Nil
            /\ th' = CancelCtx(cancelFn, th)
            /\ stopNoop' = FALSE
       ELSE /\ UNCHANGED <<cancelled, cancelFn, th>>
            /\ stopNoop' = TRUE
    /\ UNCHANGED <<otherVars, accessor, renderer, data, listeners, nctx, ticker, nrefresh,
                   lastBuilt, mx>>

\* A caller invokes Refresh directly, with its own (never cancelled) context.
Refresh(p) ==
    /\ th[p].pc = "idle" /\ CanRLock
    /\ CanRefresh
    /\ Upd(p, RefreshBegin([Fresh EXCEPT !.op = "refresh"]))
    /\ nrefresh' = nrefresh + 1
    /\ UNCHANGED <<otherVars, accessor, renderer, data, listeners, cancelFn, cancelled, nctx,
                   ticker, lastBuilt, stopNoop, mx>>

RefreshFetchFailBlank(p) ==
    /\ th[p].pc = "r_fetch"
    /\ Upd(p, AfterError(th[p], "fetcherr"))
    /\ data' = [NewTableData EXCEPT !.ver = data.ver]
    /\ UNCHANGED <<otherVars, accessor, renderer, listeners, cancelFn, cancelled, nctx,
                   ticker, nrefresh, lastBuilt, stopNoop, mx>>

\* Refresh, lines 179-182: accessor.List returns an error.
RefreshFetchFail(p) ==
    /\ th[p].pc = "r_fetch"
    /\ Upd(p, AfterError(th[p], "fetcherr"))
    /\ UNCHANGED <<otherVars, accessor, renderer, data, listeners, cancelFn, cancelled, nctx,
                   ticker, nrefresh, lastBuilt, stopNoop, mx>>

\* Refresh, lines 179-202: accessor.List returns objects; they are rendered into
\* the local row event collection.
RefreshFetchOk(p, objects, bad) ==
    /\ th[p].pc = "r_fetch"
    /\ Upd(p, [th[p] EXCEPT !.pc = "r_write",
                            !.objects = objects,
                            !.rowEvents = RenderAll(objects, bad, NewRowEvents)])
    /\ UNCHANGED <<otherVars, accessor, renderer, data, listeners, cancelFn, cancelled, nctx,
                   ticker, nrefresh, lastBuilt, stopNoop, mx>>

\* Refresh, lines 185-189: the new snapshot is a NewTableData with the header set;
\* the local row event collection is never put into it.
NewData == SetHeader(NewTableData, RendererHeader)

\* Refresh, line 211: which notification follows the write.
NotifyKind(rowEvents, oldEmpty) ==
    IF RowEventsEmpty(rowEvents) /\ ~oldEmpty THEN "nodata" ELSE "changed"

RefreshWriteLost(p) ==
    /\ th[p].pc = "r_write" /\ CanLock
    /\ LET oldEmpty == TableDataEmpty(data)
       IN Upd(p, [th[p] EXCEPT !.pc = "n_snap",
                               !.objects = <<>>,
                               !.rowEvents = NewRowEvents,
                               !.hit = FALSE,
                               !.nkind = NotifyKind(th[p].rowEvents, oldEmpty),
                               !.nver = data.ver + 1])
    /\ UNCHANGED <<otherVars, accessor, renderer, data, listeners, cancelFn, cancelled, nctx,
                   ticker, nrefresh, lastBuilt, stopNoop, mx>>

\* Refresh, lines 205-215: under the lock, note whether the old snapshot was
\* empty and replace it; then choose the notification.
RefreshWrite(p) ==
    /\ th[p].pc = "r_write" /\ CanLock
    /\ LET oldEmpty == TableDataEmpty(data)
       IN Upd(p, [th[p] EXCEPT !.pc = "n_snap",
                               !.objects = <<>>,
                               !.rowEvents = NewRowEvents,
                               !.hit = FALSE,
                               !.nkind = NotifyKind(th[p].rowEvents, oldEmpty),
                               !.nver = data.ver + 1])
    /\ data' = [NewData EXCEPT !.ver = data.ver + 1]
    /\ lastBuilt' = Len(th[p].rowEvents.events)
    /\ UNCHANGED <<otherVars, accessor, renderer, listeners, cancelFn, cancelled, nctx, ticker,
                   nrefresh, stopNoop, mx>>

\* ---------------------------------------------------------------- fan-out
\* notifyNoData / notifyDataChanged / notifyLoadFailed, first half: copy the
\* listener list under the read lock and release the lock.
NotifySnap(p) ==
    /\ th[p].pc = "n_snap" /\ CanRLock
    /\ Upd(p, [th[p] EXCEPT !.pc = "n_iter", !.snap = listeners, !.idx = 0])
    /\ UNCHANGED <<otherVars, accessor, renderer, data, listeners, cancelFn, cancelled, nctx,
                   ticker, nrefresh, lastBuilt, stopNoop, mx>>

NotifyRangeLive(p) == listeners

\* The list the notify functions range over: the copy, not the live list.
NotifyRange(p) == th[p].snap

\* What a listener's callback may do to the engine: nothing, AddListener or
\* RemoveListener (of itself or of another listener).
Callbacks == {<<"none", 0>>} \cup ({"add", "remove"} \X ListenerIds)

CallbackEffect(cb) ==
    CASE cb[1] = "none" -> UNCHANGED listeners
      [] cb[1] = "add" -> /\ CanLock
                          /\ Len(listeners) < MaxListeners
                          /\ listeners' = AddListenerTo(listeners, cb[2])
      [] cb[1] = "remove" -> /\ CanLock
                             /\ listeners' = RemoveListenerFrom(listeners, cb[2])

\* One iteration of the notify loop: the next listener's callback runs.
NotifyDeliver(p, cb) ==
    /\ th[p].pc = "n_iter"
    /\ th[p].idx < Len(NotifyRange(p))
    /\ CallbackEffect(cb)
    /\ Upd(p, [th[p] EXCEPT !.idx = @ + 1,
                            !.delivered = Append(@, NotifyRange(p)[th[p].idx + 1])])
    /\ UNCHANGED <<otherVars, accessor, renderer, data, cancelFn, cancelled, nctx, ticker,
                   nrefresh, lastBuilt, stopNoop, mx>>

AfterNotifySwallow(t) ==
    IF t.op = "tick" THEN [Fresh EXCEPT !.pc = "select", !.op = "tick", !.ctx = t.ctx,
                                        !.restart = t.restart]
    ELSE IF t.nkind = "loadfailed" THEN Return("nil")
    ELSE IF t.op = "watch" THEN [t EXCEPT !.pc = "w_go"]
    ELSE Return("nil")

\* Where a thread goes when its notification is over: Refresh returns nil to a
\* direct caller, to Watch (which then starts the loop) or to watchLoop; after
\* notifyLoadFailed Watch returns the error and watchLoop selects again.
AfterNotify(t) ==
    IF t.op = "tick" THEN [Fresh EXCEPT !.pc = "select", !.op = "tick", !.ctx = t.ctx,
                                        !.restart = t.restart]
    ELSE IF t.nkind = "loadfailed" THEN Return(t.err)
    ELSE IF t.op = "watch" THEN [t EXCEPT !.pc = "w_go"]
    ELSE Return("nil")

\* The notify loop has ranged over the whole list.
NotifyEnd(p) ==
    /\ th[p].pc = "n_iter"
    /\ th[p].idx >= Len(NotifyRange(p))
    /\ Upd(p, AfterNotify(th[p]))
    /\ UNCHANGED <<otherVars, accessor, renderer, data, listeners, cancelFn, cancelled, nctx,
                   ticker, nrefresh, lastBuilt, stopNoop, mx>>

WatchGoFirstOnly(p) ==
    /\ th[p].pc = "w_go"
    /\ th' = [th EXCEPT ![p] = Return("nil"),
                         ![th[p].ctx] = IF th[p].restart THEN @
                                        ELSE [Fresh EXCEPT !.pc = "select", !.op = "tick",
                                                           !.ctx = th[p].ctx]]
    /\ UNCHANGED <<otherVars, accessor, renderer, data, listeners, cancelFn, cancelled, nctx,
                   ticker, nrefresh, lastBuilt, stopNoop, mx>>

\* Watch, lines 132-134: go t.watchLoop(watchCtx); return nil.  The goroutine
\* creates its ticker and reaches its select.
WatchGo(p) ==
    /\ th[p].pc = "w_go"
    /\ th' = [th EXCEPT ![p] = Return("nil"),
                         ![th[p].ctx] = [Fresh EXCEPT !.pc = "select", !.op = "tick",
                                                      !.ctx = th[p].ctx,
                                                      !.restart = th[p].restart]]
    /\ UNCHANGED <<otherVars, accessor, renderer, data, listeners, cancelFn, cancelled, nctx,
                   ticker, nrefresh, lastBuilt, stopNoop, mx>>

\* ---------------------------------------------------------------- watchLoop
\* The ticker's period elapses.  Its channel holds one tick; a loop blocked in
\* its select wakes on the tick and calls Refresh.
TickerFire(c) ==
    /\ th[c].pc \notin {"none", "exited"}
    /\ IF th[c].pc = "parked"
       THEN /\ CanRefresh /\ CanRLock
            /\ Upd(c, RefreshBegin(th[c]))
            /\ nrefresh' = nrefresh + 1
            /\ UNCHANGED ticker
       ELSE /\ ~ticker[c]
            /\ ticker' = [ticker EXCEPT ![c] = TRUE]
            /\ UNCHANGED <<th, nrefresh>>
    /\ UNCHANGED <<otherVars, accessor, renderer, data, listeners, cancelFn, cancelled, nctx,
                   lastBuilt, stopNoop, mx>>

\* select, neither case ready: the goroutine blocks.
LoopPark(c) ==
    /\ th[c].pc = "select"
    /\ c \notin cancelled /\ ~ticker[c]
    /\ Upd(c, [th[c] EXCEPT !.pc = "parked"])
    /\ UNCHANGED <<otherVars, accessor, renderer, data, listeners, cancelFn, cancelled, nctx,
                   ticker, nrefresh, lastBuilt, stopNoop, mx>>

\* select, case <-ticker.C (chosen among the ready cases): Refresh(ctx).
LoopTick(c) ==
    /\ th[c].pc = "select"
    /\ ticker[c]
    /\ CanRefresh /\ CanRLock
    /\ ticker' = [ticker EXCEPT ![c] = FALSE]
    /\ Upd(c, RefreshBegin(th[c]))
    /\ nrefresh' = nrefresh + 1
    /\ UNCHANGED <<otherVars, accessor, renderer, data, listeners, cancelFn, cancelled, nctx,
                   lastBuilt, stopNoop, mx>>

\* select, case <-ctx.Done() (chosen among the ready cases): return; the
\* deferred ticker.Stop() runs.
LoopExit(c) ==
    /\ th[c].pc = "select"
    /\ c \in cancelled
    /\ Upd(c, [th[c] EXCEPT !.pc = "exited"])
    /\ ticker' = [ticker EXCEPT ![c] = FALSE]
    /\ UNCHANGED <<otherVars, accessor, renderer, data, listeners, cancelFn, cancelled, nctx,
                   nrefresh, lastBuilt, stopNoop, mx>>

\* ---------------------------------------------------------------- specification
\* The steps of the engine when the threads of callers make the public calls,
\* List returns one of results or fails, Render fails on one of failures and
\* the listeners' callbacks are among callbacks.
EngineStep(callers, results, failures, callbacks) ==
    \/ \E p \in callers : Watch(p)
    \/ \E p \in callers : WatchRefresh(p)
    \/ Stop
    \/ \E p \in callers : Refresh(p)
    \/ \E p \in Threads : RefreshFetchFail(p)
    \/ \E p \in Threads, o \in results, b \in failures : RefreshFetchOk(p, o, b)
    \/ \E p \in Threads : RefreshWrite(p)
    \/ \E p \in Threads : NotifySnap(p)
    \/ \E p \in Threads, cb \in callbacks : NotifyDeliver(p, cb)
    \/ \E p \in Threads : NotifyEnd(p)
    \/ \E p \in callers : WatchGo(p)
    \/ \E c \in Loops : TickerFire(c)
    \/ \E c \in Loops : LoopPark(c)
    \/ \E c \in Loops : LoopTick(c)
    \/ \E c \in Loops : LoopExit(c)

\* The engine configured and called by one thread, one call after the other,
\* while its loops tick.
Next ==
    \/ SetAccessor
    \/ SetRenderer
    \/ \E l \in ListenerIds : AddListener(l)
    \/ \E l \in ListenerIds : RemoveListener(l)
    \/ EngineStep({FirstCaller}, FetchResults, RenderFailures, Callbacks)

Spec == Init /\ [][Next]_vars

\* The engine called by the threads of Callers at once: it has its accessor,
\* its renderer and one listener, List fails or returns two objects, which
\* render, and the listener's callback leaves the engine alone.
InitWatch ==
    /\ accessor = TRUE
    /\ renderer = TRUE
    /\ data = NewTableData
    /\ listeners = <<1>>
    /\ cancelFn = Nil
    /\ cancelled = {}
    /\ nctx = 0
    /\ ticker = [c \in Loops |-> FALSE]
    /\ th = [p \in Threads |-> IF p \in Callers THEN Fresh
                                ELSE [Fresh EXCEPT !.pc = "none"]]
    /\ nrefresh = 0
    /\ lastBuilt = 0
    /\ stopNoop = FALSE
    /\ mx = [w |-> Nil, r |-> {}]
    /\ CacheIdle /\ RowsIdle /\ PureIdle /\ TableIdle

NextWatch == EngineStep(Callers, {<<"a", "c">>}, {{}}, {<<"none", 0>>})

SpecWatch == InitWatch /\ [][NextWatch]_vars

\* The cache on its own: any calls by any callers (each call runs under the
\* cache lock, so calls are steps), with the clock moving on in between.
InitCache ==
    /\ EngineInit
    /\ \E cfg \in CacheConfigs : CacheIs(NewResourceCache(cfg))
    /\ RowsIdle /\ PureIdle /\ TableIdle

NextCache ==
    \/ CacheTick
    \/ \E k \in CacheKeys : CacheGet(k)
    \/ \E k \in CacheKeys, v \in CacheValues : CacheSet(k, v)
    \/ \E k \in CacheKeys, v \in CacheValues, ttl \in CacheTTLs :
          CacheSetWithTTL(k, v, ttl)
    \/ \E k \in CacheKeys : CacheDelete(k)
    \/ \E k \in CachePrefixes : CacheDeletePrefix(k)
    \/ CacheInvalidate

SpecCache == InitCache /\ [][NextCache]_vars

\* A row event collection on its own: any calls, in any order.
InitRows == EngineInit /\ CacheIdle /\ RowsIdle /\ PureIdle /\ TableIdle

NextRows ==
    \/ \E re \in RowEventArgs : RowsAdd(re)
    \/ \E i \in 0..(MaxRows - 1), re \in RowEventArgs : RowsSet(i, re)
    \/ \E re \in RowEventArgs : RowsUpsert(re)
    \/ \E id \in RowIds : RowsDelete(id)
    \/ RowsClear

SpecRows == InitRows /\ [][NextRows]_vars

\* The delta and diff functions of the row model, applied to any arguments.
InitDelta ==
    /\ EngineInit /\ CacheIdle /\ RowsIdle /\ TableIdle
    /\ args \in DeltaArgs \cup DiffArgs
    /\ result = [fn |-> "none"]

NextDelta ==
    \/ ApplyNewDeltaRow
    \/ ApplyDiff

SpecDelta == InitDelta /\ [][NextDelta]_vars

\* The resource table called by several threads at once.
InitTable == EngineInit /\ CacheIdle /\ RowsIdle /\ PureIdle /\ TableIdle

TableStep(t) ==
    \/ \E d \in UpdateArgs : UpdateUI(t, d)
    \/ UpdateUIRelease(t)
    \/ UpdateUIUnwind(t)
    \/ showMessageClear(t)
    \/ showMessageCell(t)
    \/ \E filter \in Filters : SetFilter(t, filter)
    \/ ClearFilter(t)
    \/ applyFilter(t)
    \/ renderData(t)
    \/ buildHeader(t)
    \/ buildHeaderSort(t)
    \/ buildHeaderCell(t)
    \/ buildRow(t)
    \/ sortHandler(t)
    \/ refresh(t)
    \/ refreshPeek(t)
    \/ refreshUpdateUI(t)
    \/ TableLoadFailed(t)
    \/ TableLoadFailedTitle(t)
    \/ TableNoData(t)
    \/ updateTitle(t)
    \/ updateTitleModelNs(t)
    \/ updateTitleData(t)
    \/ updateTitleDataNs(t)
    \/ updateTitleCount(t)
    \/ updateTitleSet(t)
    \/ updateTitleTitle(t)
    \/ \E m \in Models : SetModel(t, m)
    \/ SetModelStore(t)
    \/ SetModelAdd(t)

NextTable == \E t \in TableThreads : TableStep(t)

SpecTable == InitTable /\ [][NextTable]_vars

\* The resource table called by one thread at a time: a call begins when every
\* other call has returned.
NextTableSeq ==
    \E t \in TableThreads :
        /\ \A u \in TableThreads \ {t} : tth[u].pc = "idle"
        /\ TableStep(t)

SpecTableSeq == InitTable /\ [][NextTableSeq]_vars

\* The comparison function of the row model, applied to any arguments.
InitLess ==
    /\ EngineInit /\ CacheIdle /\ RowsIdle /\ TableIdle
    /\ args \in LessArgs
    /\ result = [fn |-> "none"]

NextLess == ApplyLess

SpecLess == InitLess /\ [][NextLess]_vars

\* ---------------------------------------------------------------- properties
Objects == {"a", "b", "c"}
Range(q) == {q[i] : i \in 1..Len(q)}
\* The identifiers of a row event collection, in order.
IdsOf(r) == [i \in 1..Len(r.events) |-> r.events[i].Row.ID]

\* Steps of thread p: it replaces the snapshot; accessor.List fails for it; one
\* of its callbacks runs; its notification ends.
WriteStep(p) == th[p].pc = "r_write" /\ th'[p].pc = "n_snap"
FetchFailStep(p) == th[p].pc = "r_fetch" /\ th'[p].pc \notin {"r_fetch", "r_write"}
DeliverStep(p) == Len(th'[p].delivered) > Len(th[p].delivered)
NotifyEndStep(p) == th[p].pc = "n_iter" /\ th'[p].pc # "n_iter"
Running(c) == th[c].pc \notin {"none", "exited"}

\* C1: when a Refresh whose objects all rendered replaces the snapshot, Peek()
\* holds one row event per fetched object, in fetch order, and FindIndex finds
\* exactly the fetched identifiers.
C1_PeekHoldsFetchedRows ==
    [][\A p \in Threads :
          (WriteStep(p) /\ Len(th[p].rowEvents.events) = Len(th[p].objects))
          => /\ IdsOf(Peek'.rowEvents) = th[p].objects
             /\ \A o \in Objects :
                   FindIndex(Peek'.rowEvents, o)[2] <=> o \in Range(th[p].objects)]_vars

\* C2: a successful Refresh notifies "no data" exactly when it rendered zero
\* rows and the Refresh that wrote the replaced snapshot had rendered at least
\* one; otherwise "data changed".
C2_NoDataIffEmptiedSnapshot ==
    [][\A p \in Threads :
          WriteStep(p)
          => /\ th'[p].nkind \in {"nodata", "changed"}
             /\ th'[p].nkind = "nodata"
                  <=> (RowEventsEmpty(th[p].rowEvents) /\ lastBuilt > 0)]_vars

\* C3: the step in which accessor.List fails leaves the snapshot as it was:
\* Peek() returns the same header, rows and row count before and after.
C3_FailedFetchKeepsSnapshot ==
    [][\A p \in Threads : FetchFailStep(p) => Peek' = Peek]_vars

C3_Witness ==
    \E p \in Threads :
        /\ th[p].nkind = "loadfailed" /\ th[p].err = "fetcherr"
        /\ data.ver > 0 /\ data.header = RendererHeader

\* C4: every Refresh whose fetch fails, a directly called one too, starts a
\* "load failed" notification.
C4_EveryFailedFetchNotifies ==
    [][\A p \in Threads :
          FetchFailStep(p) => th'[p].pc = "n_snap" /\ th'[p].nkind = "loadfailed"]_vars

\* C5: a watch loop whose context was cancelled (by Stop or by a superseding
\* Watch) while its periodic fetch was in flight replaces no snapshot and
\* starts no notification when that fetch returns.
C5_CancelledLoopIsSilent ==
    [][\A c \in Loops :
          th[c].hit => ~WriteStep(c) /\ th'[c].pc # "n_snap"]_vars

\* Loop c is in a tick: its select took the tick and the Refresh, or the
\* notification after it, has not returned.
Ticking(c) == th[c].op = "tick" /\ th[c].pc \notin {"none", "select", "parked", "exited"}

\* C6: at most one context created by Watch is not cancelled, and it is the
\* one t.cancelFn cancels; so at most one running loop has a non-cancelled
\* context, while a Watch performs its Refresh every context created before
\* its own is cancelled, and no two loops are in a tick at once.
C6_AtMostOneLiveLoop ==
    /\ \A c \in 1..nctx : c \notin cancelled => c = cancelFn
    /\ Cardinality({c \in Loops : Running(c) /\ c \notin cancelled}) <= 1
    /\ \A c \in Loops : Running(c) => c <= nctx
    /\ \A p \in Callers :
          th[p].op = "watch" => \A c \in 1..(th[p].ctx - 1) : c \in cancelled
    /\ \A c \in Loops, d \in Loops : (Ticking(c) /\ Ticking(d)) => c = d

\* C7: no fetch failure ends periodic refreshing.  When Watch returns and its
\* context is not cancelled, its periodic loop exists, also after a failed
\* initial refresh: without the loop no refresh attempt follows.
C7_WatchAlwaysStartsLoop ==
    [][\A p \in Callers :
          (/\ th[p].op = "watch" /\ th'[p].pc = "idle"
           /\ th[p].err \in {"none", "fetcherr"} /\ th[p].ctx \notin cancelled')
          => th'[th[p].ctx].pc \notin {"none", "exited"}]_vars

\* C8: a Stop that finds no watch to cancel (a second Stop in a row, or a Stop
\* before any Watch) changes nothing at all; a Stop that cancels leaves the
\* snapshot and the listener list alone and calls no listener.
C8_StopIdempotent ==
    [][/\ (stopNoop' /\ ~stopNoop)
          => UNCHANGED <<accessor, renderer, data, listeners, cancelFn, cancelled,
                         nctx, ticker, th, nrefresh, lastBuilt, mx>>
       /\ (cancelFn # Nil /\ cancelFn' = Nil)
          => /\ UNCHANGED <<data, listeners>>
             /\ \A p \in Threads : ~DeliverStep(p)]_vars

C8_Witness ==
    /\ stopNoop /\ nctx > 0
    /\ data.ver > 0 /\ listeners # <<>>

\* C9: while the listeners are being told of the snapshot a Refresh wrote,
\* Peek() returns that snapshot or one written after it.
C9_NotifyAfterWrite ==
    \A p \in Threads :
        (th[p].pc \in {"n_snap", "n_iter"} /\ th[p].nkind \in {"changed", "nodata"})
        => /\ th[p].nver >= 1
           /\ Peek.ver >= th[p].nver

C9_Witness ==
    \E p \in Threads :
        /\ th[p].pc = "n_iter" /\ th[p].nkind = "changed"
        /\ th[p].idx >= 1 /\ th[p].idx < Len(th[p].snap)
        /\ Peek.ver > th[p].nver

ConfigError ==
    IF ~accessor THEN "noaccessor" ELSE IF ~renderer THEN "norenderer" ELSE "none"

\* C11: a Refresh that begins on an engine with no accessor or no renderer
\* (called directly, by Watch or by a tick) leaves the snapshot as it is, puts
\* no thread into accessor.List, and hands the configuration error to its caller
\* in that same step: the direct caller gets it as the return value, Watch and
\* watchLoop get it as the error they report.
C11_UnconfiguredRefreshFails ==
    [][(nrefresh' = nrefresh + 1 /\ ConfigError # "none")
       => /\ Peek' = Peek
          /\ \A p \in Threads : th'[p].pc = "r_fetch" => th[p].pc = "r_fetch"
          /\ \E p \in Threads :
                /\ th[p].pc \in {"idle", "w_refresh", "select", "parked"}
                /\ \/ th'[p] = Return(ConfigError)
                   \/ /\ th'[p].pc = "n_snap" /\ th'[p].nkind = "loadfailed"
                      /\ th'[p].err = ConfigError]_vars

C11_Witness ==
    \E p \in Callers :
        /\ th[p].ret = "norenderer" /\ accessor /\ ~renderer
        /\ nctx = 0 /\ listeners # <<>> /\ data = NewTableData

Rendered(objects, bad) == SelectSeq(objects, LAMBDA o : o \notin bad)

\* C13: when accessor.List returns, whatever objects fail to render, every
\* other object is converted, in order; the Refresh then replaces the snapshot
\* and notifies "data changed" or "no data", never "load failed", and returns
\* nil.
C13_RenderFailureSkipsObject ==
    [][\A p \in Threads :
          /\ (th[p].pc = "r_fetch" /\ th'[p].pc = "r_write")
             => \E bad \in RenderFailures :
                   IdsOf(th'[p].rowEvents) = Rendered(th'[p].objects, bad)
          /\ (th[p].pc = "r_write" /\ th'[p] # th[p])
             => /\ WriteStep(p) /\ data'.ver = data.ver + 1
                /\ data'.header = RendererHeader
                /\ th'[p].nkind \in {"changed", "nodata"} /\ th'[p].err = "none"
          /\ (NotifyEndStep(p) /\ th[p].nkind \in {"changed", "nodata"})
             => /\ th[p].delivered = th[p].snap
                /\ th[p].op = "refresh" => th'[p] = Return("nil")]_vars

C13_Witness ==
    \E p \in Threads :
        /\ th[p].pc = "r_write" /\ th[p].objects = <<"a", "b", "c">>
        /\ IdsOf(th[p].rowEvents) = <<"a", "c">>
        /\ data.ver > 0 /\ listeners # <<>>

\* Steps of the cache: a Get, a Set or SetWithTTL, a DeletePrefix; the call's
\* arguments and results are in cres'.
GetStep == cres'.op = "get" /\ now' = now
SetStep == cres'.op = "set" /\ now' = now
DeletePrefixStep == cres'.op = "deleteprefix" /\ now' = now

\* key starts with prefix.
StartsWith(key, prefix) ==
    Len(prefix) <= Len(key) /\ \A i \in 1..Len(prefix) : key[i] = prefix[i]

\* C14: Get(k) returns found exactly when k is resident and its expiry is
\* strictly later than now (a miss at the instant now = expiry), and then the
\* value is the one last stored for k.
C14_GetHitsIffFresh ==
    [][GetStep
       => LET k == cres'.key
          IN /\ cres'.found <=> (k \in DOMAIN entries /\ entries[k].RefreshAt > now)
             /\ cres'.found => cres'.value = entries[k].Value]_vars

\* C15: the cache never holds more than maxEntries entries, and a Set that
\* finds it at capacity removes exactly one entry, one with the oldest
\* Timestamp, before it inserts.
C15_NeverOverCapacity ==
    /\ [](Cardinality(DOMAIN entries) <= maxEntries)
    /\ [][(SetStep /\ Cardinality(DOMAIN entries) >= maxEntries)
          => \E k \in OldestKeys(entries) :
                DOMAIN entries' = ((DOMAIN entries) \ {k}) \cup {cres'.key}]_vars

\* C16 as stated: for every prefix, the empty one too, DeletePrefix removes
\* exactly the entries whose key starts with it, returns how many, and leaves
\* the others as they were; Get then misses for every key starting with it.
C16_DeletePrefixAnyPrefix ==
    [][DeletePrefixStep
       => LET p == cres'.key
              gone == {k \in DOMAIN entries : StartsWith(k, p)}
          IN /\ DOMAIN entries' = (DOMAIN entries) \ gone
             /\ \A k \in DOMAIN entries' : entries'[k] = entries[k]
             /\ cres'.count = Cardinality(gone)
             /\ \A k \in CacheKeys : StartsWith(k, p) => ~GetFound(k)']_vars

\* C16 amended: the same for every non-empty prefix; DeletePrefix("") removes
\* nothing and returns 0.
C16_DeletePrefixNonEmpty ==
    [][DeletePrefixStep
       => LET p == cres'.key
              gone == IF p = <<>> THEN {}
                      ELSE {k \in DOMAIN entries : StartsWith(k, p)}
          IN /\ DOMAIN entries' = (DOMAIN entries) \ gone
             /\ \A k \in DOMAIN entries' : entries'[k] = entries[k]
             /\ cres'.count = Cardinality(gone)
             /\ p # <<>> => \A k \in CacheKeys : StartsWith(k, p) => ~GetFound(k)'
             /\ p = <<>> => entries' = entries /\ cres'.count = 0]_vars

C16_Witness ==
    /\ cres.op = "deleteprefix" /\ cres.key = <<"a", "b">> /\ cres.count = 1
    /\ DOMAIN entries = {<<"a">>} /\ GetFound(<<"a">>)

\* C17: after every call on a row event collection the index and the sequence
\* agree: no call panics; when FindIndex(id) returns (i, true) the event at
\* position i has identifier id (no stale entry, so an identifier that was
\* deleted and that no event has is not found); and every identifier some
\* event has is found.
C17_IndexMatchesSequence ==
    /\ rres # "panic"
    /\ \A id \in RowIds :
          FindIndex(rows, id)[2]
          => /\ FindIndex(rows, id)[1] < Len(rows.events)
             /\ rows.events[FindIndex(rows, id)[1] + 1].Row.ID = id
    /\ \A i \in 1..Len(rows.events) : FindIndex(rows, rows.events[i].Row.ID)[2]

\* Rows o and n and header h have the same number of columns.
SameHeader(o, n, h) == Len(o.Fields) = Len(h) /\ Len(n.Fields) = Len(h)

\* C18: for an old and a new row over the same header, the delta row holds at
\* each column the old value when the value changed and the column is not a
\* time column, else the empty placeholder; so when the rows differ only in
\* time columns the delta row is blank.
C18_DeltaRowExcludesTime ==
    (result.fn = "NewDeltaRow" /\ SameHeader(args.o, args.n, args.h))
    => /\ Len(result.value) = Len(args.h)
       /\ \A i \in 1..Len(args.h) :
             result.value[i] =
                IF args.o.Fields[i] # args.n.Fields[i] /\ ~args.h[i].Time
                THEN args.o.Fields[i] ELSE ""
       /\ (\A i \in 1..Len(args.h) :
              args.o.Fields[i] # args.n.Fields[i] => args.h[i].Time)
          => result.blank

C18_Witness ==
    /\ result.fn = "NewDeltaRow" /\ SameHeader(args.o, args.n, args.h)
    /\ Len(args.h) = 2 /\ ~args.h[1].Time /\ args.h[2].Time
    /\ args.o.Fields = <<"x", "x">> /\ args.n.Fields = <<"x", "y">>
    /\ result.blank

\* C19: for all row events x, y and every age column, x.Diff(x) is false and
\* x.Diff(y) equals y.Diff(x).
C19_DiffReflexiveSymmetric ==
    result.fn = "Diff" => (~result.xx /\ result.xy = result.yx)

C19_Witness ==
    /\ result.fn = "Diff" /\ result.xy /\ result.yx /\ ~result.xx
    /\ args.x.Kind = args.y.Kind /\ args.x.Row = args.y.Row
    /\ Len(args.x.Deltas.s) < Len(args.y.Deltas.s)
    /\ args.ageCol = 0

\* C20: for two rows with distinct identifiers, whatever the values and the
\* mode, exactly one of Less(idA, idB, vA, vB) and Less(idB, idA, vB, vA) is
\* true, and equal values are ordered by the natural order of the identifiers.
C20_LessIsStrictTotalOrder ==
    (result.fn = "Less" /\ args.id1 # args.id2)
    => /\ result.ab # result.ba
       /\ args.v1 = args.v2 => result.ab = NaturalLess(args.id1, args.id2)

\* The seconds of the well-formed duration values: sums of number-plus-unit
\* terms, and the empty and the placeholder value.
DurationSeconds ==
    {<< <<>>, 0 >>, << NAValue, 0 >>,
     << <<"1", "s">>, 1 >>, << <<"1", "0", "s">>, 10 >>,
     << <<"1", "m">>, 60 >>, << <<"1", "1", "m">>, 11 * 60 >>,
     << <<"1", "h">>, 60 * 60 >>, << <<"6", "0", "m">>, 60 * 60 >>,
     << <<"1", "h", "1", "m">>, 60 * 60 + 60 >>,
     << <<"1", "m", "1", "h">>, 60 + 60 * 60 >>,
     << <<"9", "0", "m">>, 90 * 60 >>, << <<"5", "h">>, 5 * 60 * 60 >>,
     << <<"1", "1", "h">>, 11 * 60 * 60 >>,
     << <<"2", "d">>, 2 * 24 * 60 * 60 >>,
     << <<"1", "y">>, 365 * 24 * 60 * 60 >>}

DurationMode == args.fn = "Less" /\ args.isDuration /\ ~args.isNumber

\* C21: in duration mode, for two values whose total seconds (the sum of their
\* number-plus-unit terms, y = 365 days, d = 24 h, h, m, s; zero for the empty
\* and the n/a value) differ, Less puts the one of fewer seconds first and not
\* the other way round; so "90m" is before "5h", which is before "2d".
C21_DurationOrdersBySeconds ==
    (result.fn = "Less" /\ DurationMode)
    => \A d1 \in DurationSeconds, d2 \in DurationSeconds :
           (d1[1] = args.v1 /\ d2[1] = args.v2 /\ d1[2] < d2[2])
           => (result.ab /\ ~result.ba)

C21_Witness ==
    /\ result.fn = "Less" /\ DurationMode
    /\ args.v1 = <<"9", "0", "m">> /\ args.v2 = <<"5", "h">>
    /\ result.ab /\ ~result.ba

\* The texts of the rows shown under the header row, and the fields of the rows
\* of a snapshot.
Shown(cs) == [i \in 1..(Len(cs) - 1) |-> [j \in 1..Len(cs[i + 1]) |-> cs[i + 1][j].Text]]
RowsOf(d) == [i \in 1..Len(d.rowEvents.events) |-> d.rowEvents.events[i].Row.Fields]

\* The cells of the rows of the events from idx (0-based) on, under header h,
\* set in cs: one cell per field while the header has a column for it.
RECURSIVE RowCells(_, _, _, _)
RowCells(cs, events, h, idx) ==
    IF idx >= Len(events) THEN cs
    ELSE LET r == events[idx + 1].Row
             n == IF Len(r.Fields) < Len(h) THEN Len(r.Fields) ELSE Len(h)
         IN RowCells(cs \o << [j \in 1..n |-> Cell(r.Fields[j],
                                                   IF j = 1 THEN r.ID ELSE <<>>)] >>,
                     events, h, idx + 1)

\* The unfiltered view of snapshot d: what UpdateUI(d) leaves in the table when
\* no filter is set and the sort column is sortName.
FullView(d, sortName) ==
    IF HasError(d) THEN showMessage(d.errMsg)
    ELSE IF TableDataEmpty(d) THEN showMessage("No resources found")
    ELSE RowCells(<< [j \in 1..Len(d.header) |->
                         headerCell(d.header, j - 1, d.header[j].Name = sortName)] >>,
                  d.rowEvents.events, d.header, 0)

\* A step of a SetFilter or ClearFilter call of thread t.
FilterCallStep(t) ==
    tth'[t] # tth[t] /\ (tth[t].op = "SetFilter" \/ tth'[t].op = "SetFilter")

\* C22: when the calls are made one at a time, no step of SetFilter changes the
\* stored full snapshot, and a SetFilter("") or ClearFilter that returns,
\* whatever filter was set before it, leaves the unfiltered view of the stored
\* full snapshot in the table, cell for cell: what UpdateUI shows for that
\* snapshot when no filter is set.
C22_FilterRoundTrip ==
    [][\A t \in TableThreads :
          FilterCallStep(t)
          => /\ fullData' = fullData
             /\ (tth'[t].pc = "idle" /\ filterText = <<>> /\ fullData # <<>>)
                => cells' = FullView(fullData[1], sortColName)]_vars

\* Thread t is in a render pass: renderData has cleared the table and has not
\* yet written all its rows.
Rendering(t) == tth[t].pc \in {"r_header", "r_sort", "r_hcell", "r_cell"}

\* C23: no two threads are in a render pass of the same table at once, whether
\* the passes were started by UpdateUI or by SetFilter/ClearFilter.
C23_NoOverlappingRenders ==
    \A t \in TableThreads, u \in TableThreads :
        (Rendering(t) /\ Rendering(u)) => t = u

\* The name a sort trigger is to record: the column after the current sort
\* column, the first column when there is none, it is unknown or it is the last.
NextSortName ==
    IF \E i \in 1..(Len(header) - 1) : header[i].Name = sortColName
    THEN header[(CHOOSE i \in 1..(Len(header) - 1) : header[i].Name = sortColName) + 1].Name
    ELSE header[1].Name

\* The rows of cells under the header are in the order of Less on column col
\* (1-based) of header h: no row is before one that Less puts before it.
ShownInOrder(cs, h, col) ==
    \A i \in 2..(Len(cs) - 1) :
        ~Less(FALSE, h[col].Time, h[col].Capacity,
              cs[i + 1][1].Reference, cs[i][1].Reference,
              cs[i + 1][col].Text, cs[i][col].Text)

\* The refresh goroutine a sort trigger started, run by thread t, ends with
\* this step: at once when the table has no model, with the return of its
\* UpdateUI otherwise.
RefreshEnds(t) ==
    /\ tth'[t].pc = "idle"
    /\ \/ tth[t].pc = "idle" /\ pending' = pending - 1
       \/ tth[t].op = "refresh" /\ tth[t].pc # "idle"

\* C24: a sort trigger on a table with a header records the name of the next
\* column, and when the refresh it started has ended, the rows shown are in
\* the order of Less on that column, in the mode of the column's attributes.
C24_SortCyclesAndOrders ==
    [][\A t \in TableThreads :
          /\ (tth[t].pc = "idle" /\ pending' = pending + 1)
             => sortColName' = NextSortName
          /\ (/\ RefreshEnds(t)
              /\ \E c \in 1..Len(header) : header[c].Name = sortColName)
             => ShownInOrder(cells', header,
                             CHOOSE c \in 1..Len(header) : header[c].Name = sortColName)]_vars

\* C25: a "load failed" notification on a table that shows the rows of a
\* snapshot leaves those rows shown: no step of TableLoadFailed changes them.
C25_LoadFailedKeepsRows ==
    [][\A t \in TableThreads :
          (/\ tth'[t] # tth[t]
           /\ (tth[t].op = "TableLoadFailed" \/ tth'[t].op = "TableLoadFailed")
           /\ Shown(cells) # <<>>)
          => Shown(cells') = Shown(cells)]_vars

\* Thread p is telling the listeners of a snapshot it wrote.
NotifyingWrite(p) == th[p].pc = "n_iter" /\ th[p].nkind \in {"changed", "nodata"}

\* C26: when two Refresh calls overlap, no listener is told of a snapshot after
\* it was told of a snapshot written later: the step that delivers the snapshot
\* of one write to a listener is never taken while another Refresh, which wrote
\* after it, has already delivered its snapshot to that listener.
C26_DeliveriesFollowWrites ==
    [][\A p \in Threads :
          (DeliverStep(p) /\ NotifyingWrite(p))
          => ~\E q \in Threads \ {p} :
                 /\ NotifyingWrite(q)
                 /\ th[q].nver > th[p].nver
                 /\ th'[p].delivered[Len(th'[p].delivered)] \in Range(th[q].delivered)]_vars

\* C27: a Set or SetWithTTL on a key that is resident leaves the resident keys
\* as they were: no other key is removed and the count does not change.
C27_OverwriteKeepsOthers ==
    [][(SetStep /\ cres'.key \in DOMAIN entries)
       => DOMAIN entries' = DOMAIN entries]_vars

\* C28: every UpdateUI call stores the snapshot it is handed, so that when the
\* calls have returned the stored full snapshot is the one of the call that
\* began last.
C28_LastUpdateIsStored ==
    [][\A t \in TableThreads, d \in UpdateArgs : UpdateUI(t, d) => fullData' = d]_vars

\* C29: an UpdateUI call that took the guard returns only by releasing it, on
\* each of its paths; so the guard is set only while such a call is executing,
\* and an UpdateUI that begins while none is executing is not skipped.
C29_GuardReleased ==
    /\ []((\A t \in TableThreads : ~tth[t].guard) => ~isUpdating)
    /\ [][\A t \in TableThreads :
             /\ (tth[t].guard /\ ~tth'[t].guard) => ~isUpdating'
             /\ (/\ tth[t].pc \in {"idle", "f_update"} /\ tth'[t] # tth[t]
                 /\ tth'[t].pc = "idle" /\ tth'[t].ret = "skipped")
                => \E u \in TableThreads \ {t} : tth[u].guard]_vars

\* An UpdateUI call handed a snapshot without rows took the guard, showed
\* "No resources found" and returned, after an UpdateUI that was skipped; the
\* guard is clear.
C29_Witness ==
    /\ \A t \in TableThreads : tth[t].pc = "idle"
    /\ \E t \in TableThreads : tth[t].ret = "skipped"
    /\ fullData = <<DataEmpty>>
    /\ cells = showMessage("No resources found")
    /\ ~isUpdating

\* ------------------------------------------------------------------ C30
\* The context c belongs to a Watch call made on a stopped engine: the caller
\* still inside that call, or the loop the call started.
RestartCtx(c) == \E q \in Threads : th[q].restart /\ th[q].ctx = c

\* C30: Stopped is not terminal.  A Watch call on an engine whose watch was
\* cancelled by Stop derives a new, uncancelled context, keeps its cancel
\* function and begins the synchronous Refresh in the caller, exactly as the
\* call does on a fresh engine; when that Refresh has succeeded the call
\* starts the new loop at its select and returns nil; and a later Stop cancels
\* the new context, waking the new loop if it is blocked in its select.
C30_WatchAfterStop ==
    [][/\ \A p \in Callers :
            (th[p].pc = "idle" /\ th'[p].op = "watch" /\ cancelFn = Nil /\ nctx > 0)
                => /\ nctx' = nctx + 1
                   /\ cancelFn' = nctx'
                   /\ nctx' \notin cancelled'
                   /\ th'[p] = [Fresh EXCEPT !.pc = "w_refresh", !.op = "watch",
                                             !.ctx = nctx + 1, !.restart = TRUE]
                   /\ th'[nctx'].pc = "none"
       /\ \A p \in Callers :
            (th[p].pc = "w_refresh" /\ th[p].restart /\ th'[p].pc # "w_refresh")
                => /\ th'[p] = [RefreshBegin([Fresh EXCEPT !.pc = "w_refresh",
                                                           !.op = "watch",
                                                           !.ctx = th[p].ctx])
                                   EXCEPT !.restart = TRUE]
                   /\ nrefresh' = nrefresh + 1
       /\ \A p \in Callers :
            (th[p].pc = "w_go" /\ th[p].restart /\ th'[p].pc # "w_go")
                => /\ th'[p] = Return("nil")
                   /\ th'[th[p].ctx].pc = "select"
                   /\ th'[th[p].ctx].op = "tick"
                   /\ th'[th[p].ctx].ctx = th[p].ctx
       /\ \A c \in Loops :
            (RestartCtx(c) /\ cancelFn = c /\ cancelFn' = Nil)
                => /\ c \in cancelled'
                   /\ th[c].pc = "parked" => th'[c].pc = "exited"]_vars

\* A Watch call made after Stop started its loop, and a later Stop cancelled
\* that loop, which has returned.
C30_Witness ==
    /\ \E c \in Loops : /\ th[c].restart /\ th[c].pc = "exited"
                         /\ c \in cancelled
    /\ cancelFn = Nil

====
